---------------------------- MODULE Spec2Model ----------------------------
(***************************************************************************)
(* Trading journal: the per-trade P&L calculator (TradeReview.calculatePnL *)
(* and TradingTable.calculateTradePnL), the review page's risk metrics     *)
(* (TradeReview.calculateRiskMetrics), the dashboard's time filter,        *)
(* statistics, cards and equity curve (TradingDashboard.filteredTrades,    *)
(* filteredStats and equityData, StatsCard), the order of the rows of      *)
(* TradingTable (sortedTrades) and the accounts hook (useAccounts) with    *)
(* the backend table it reads and writes.                                  *)
(*                                                                         *)
(* Number representation.  JavaScript numbers are modelled by exact        *)
(* integers in fixed units:                                                *)
(*   - money (pnl_dollar, riskAmount, every P&L) counts 1/10000 dollar,    *)
(*     so $200.00 is 2000000 and one cent is 100;                          *)
(*   - starting_balance counts whole dollars;                              *)
(*   - risk_percentage counts tenths of a percent (10 is 1.0 %);           *)
(*   - rr counts tenths (20 is a reward:risk of 2.0);                      *)
(*   - ratios (winRate, profitFactor) are reduced fractions <<num, den>>;  *)
(*   - dates count hours of local time from 1970-01-01T00:00.              *)
(* Where the binary rounding of a number decides what the program shows,   *)
(* on the half of the last digit toFixed keeps and on the sign of a sum    *)
(* that is 0, the IEEE 754 double the code holds is computed beside it.    *)
(* null / undefined is the value null below; a string such as trade.result *)
(* is a sequence of one-character strings; a nullable object (the active   *)
(* account, the loaded trade) is a sequence of length 0 (null) or 1.       *)
(***************************************************************************)
EXTENDS Integers, Sequences, FiniteSets, Bags

VARIABLES
    activeAccount,  \* TradingDashboard: its useAccounts().getActiveAccount(), <<>> (null) or <<account>>
    tableActiveAccount,  \* TradingTable: its own useAccounts().getActiveAccount()
    reviewActiveAccount, \* TradeReview: its own useAccounts().getActiveAccount()
    route,          \* the page the router shows: "/" (the dashboard) or "/review/:tradeId"
    tradesTable,    \* the backend: the row of the table trades with the id tradeId, <<>> or <<t>>
    awaiting,       \* the asynchronous calls on trades that await the backend
    editingTrade,   \* TradingTable: the state editingTrade, <<>> (null) or <<t>>
    updateData,     \* EditTradeModal: the updates that await the backend, in the order sent
    updates,        \* the number of updates EditTradeModal has sent
    trade,          \* TradeReview: the state trade, <<>> (null) or <<t>>
    loading,        \* TradeReview: the state loading
    tradePnL,       \* TradingTable: calculateTradePnL(trade) of each row of sortedTrades
    pnl,            \* TradeReview: const pnl = calculatePnL(trade), null while the page is not rendered
    riskMetrics,    \* TradeReview: calculateRiskMetrics(trade), <<>> while not rendered or null
    trades,         \* TradingDashboard: useTrades().trades, all trades of the user
    now,            \* TradingDashboard: the last reading of new Date()
    activeFilter,   \* TradingDashboard: the keyword of the time filter
    filteredTrades, \* TradingDashboard: the memo filteredTrades
    stats,          \* TradingDashboard: the memo filteredStats
    equityData,     \* TradingDashboard: the memo equityData
    sortedTrades,   \* TradingTable: the rows it shows, const sortedTrades
    accountsTable,  \* the backend: the user's rows of the table accounts, by created_at
    instances,      \* the mounted instances of useAccounts: accounts, loading, error of each
    inFlight,       \* the bag of the asynchronous calls of the instances that await the backend
    inserted,       \* the number of rows ever inserted into accounts
    failures,       \* the number of backend requests that have failed
    events,         \* the number of postgres_changes events the backend has sent
    invocations     \* the number of hook operations the user has invoked

vars == <<activeAccount, tableActiveAccount, reviewActiveAccount, route, tradesTable, awaiting,
          updateData, updates, trade, loading, tradePnL, pnl, riskMetrics,
          trades, now, activeFilter, filteredTrades, stats, equityData, sortedTrades,
          editingTrade, accountsTable, instances, inFlight, inserted, failures, events, invocations>>

\* The state of the backend and of the useAccounts instances.
accountsVars == <<accountsTable, instances, inFlight, inserted, failures, events, invocations>>

\* The state of the review page, the route and the backend's trade.
reviewVars == <<reviewActiveAccount, route, tradesTable, awaiting, updateData, updates, trade,
                loading, pnl, riskMetrics>>

\* The state of the dashboard and of its trade table.
dashboardVars == <<trades, now, activeFilter, filteredTrades, stats, equityData, sortedTrades,
                   tableActiveAccount, tradePnL, editingTrade>>

\* null and undefined: a value no number of the model takes.
null == -999999999

----------------------------------------------------------------------------
(* Strings *)

UpperLetters == <<"A","B","C","D","E","F","G","H","I","J","K","L","M",
                  "N","O","P","Q","R","S","T","U","V","W","X","Y","Z">>

LowerLetters == <<"a","b","c","d","e","f","g","h","i","j","k","l","m",
                  "n","o","p","q","r","s","t","u","v","w","x","y","z">>

\* The lower-case letter of each upper-case letter.
LowerOf ==
    [c \in {UpperLetters[i] : i \in DOMAIN UpperLetters} |->
        LowerLetters[CHOOSE i \in DOMAIN UpperLetters : UpperLetters[i] = c]]

\* One character of String.prototype.toLowerCase.
LowerChar(c) == IF c \in DOMAIN LowerOf THEN LowerOf[c] ELSE c

toLowerCase(s) == [i \in DOMAIN s |-> LowerChar(s[i])]

win == <<"w","i","n">>

loss == <<"l","o","s","s">>

breakeven == <<"b","r","e","a","k","e","v","e","n">>

----------------------------------------------------------------------------
(* Numbers *)

Abs(x) == IF x < 0 THEN -x ELSE x

\* Number(v) of a value that is already a number (pnl_dollar is a JSON number).
Number(v) == v

\* x || d for a number x: d when x is null, undefined or 0.
OrDefault(x, d) == IF x = null \/ x = 0 THEN d ELSE x

----------------------------------------------------------------------------
(* IEEE 754 binary64.  A JavaScript number that is no integer is stored as *)
(* the double nearest to its value, and every operation returns the       *)
(* double nearest to the exact result (a tie to the even mantissa).       *)
(* Naturals beyond 2^31 are sequences of limbs in base 2^15, the least    *)
(* significant first and the most significant not zero; <<>> is 0.        *)

Base == 32768

BigOf(n) ==
    IF n = 0 THEN <<>>
    ELSE IF n < Base THEN <<n>>
    ELSE IF n < Base * Base THEN <<n % Base, n \div Base>>
    ELSE <<n % Base, (n \div Base) % Base, n \div (Base * Base)>>

RECURSIVE Trim(_)
Trim(a) == IF a = <<>> \/ a[Len(a)] # 0 THEN a ELSE Trim(SubSeq(a, 1, Len(a) - 1))

Limb(a, i) == IF i <= Len(a) THEN a[i] ELSE 0

RECURSIVE AddFrom(_, _, _, _)
AddFrom(a, b, i, carry) ==
    IF i > Len(a) /\ i > Len(b) THEN (IF carry = 0 THEN <<>> ELSE <<carry>>)
    ELSE <<(Limb(a, i) + Limb(b, i) + carry) % Base>>
             \o AddFrom(a, b, i + 1, (Limb(a, i) + Limb(b, i) + carry) \div Base)

BigAdd(a, b) == AddFrom(a, b, 1, 0)

RECURSIVE SubFrom(_, _, _, _)
SubFrom(a, b, i, borrow) ==
    IF i > Len(a) THEN <<>>
    ELSE IF Limb(a, i) - Limb(b, i) - borrow < 0
    THEN <<Limb(a, i) - Limb(b, i) - borrow + Base>> \o SubFrom(a, b, i + 1, 1)
    ELSE <<Limb(a, i) - Limb(b, i) - borrow>> \o SubFrom(a, b, i + 1, 0)

\* a - b for a >= b
BigSub(a, b) == Trim(SubFrom(a, b, 1, 0))

RECURSIVE LessFrom(_, _, _)
LessFrom(a, b, i) ==
    IF i = 0 THEN FALSE
    ELSE IF a[i] # b[i] THEN a[i] < b[i]
    ELSE LessFrom(a, b, i - 1)

BigLess(a, b) == IF Len(a) # Len(b) THEN Len(a) < Len(b) ELSE LessFrom(a, b, Len(a))

\* a * k for 0 <= k <= Base
RECURSIVE TimesFrom(_, _, _, _)
TimesFrom(a, k, i, carry) ==
    IF i > Len(a) THEN (IF carry = 0 THEN <<>> ELSE <<carry>>)
    ELSE <<(a[i] * k + carry) % Base>> \o TimesFrom(a, k, i + 1, (a[i] * k + carry) \div Base)

BigTimes(a, k) == IF k = 0 THEN <<>> ELSE TimesFrom(a, k, 1, 0)

\* a * Base^n
ShiftLimbs(a, n) == IF a = <<>> THEN <<>> ELSE [i \in 1..n |-> 0] \o a

RECURSIVE MulFrom(_, _, _)
MulFrom(a, b, i) ==
    IF i > Len(b) THEN <<>>
    ELSE BigAdd(ShiftLimbs(BigTimes(a, b[i]), i - 1), MulFrom(a, b, i + 1))

BigMul(a, b) == MulFrom(a, b, 1)

RECURSIVE PowerOfTwo(_)
PowerOfTwo(k) == IF k = 0 THEN 1 ELSE 2 * PowerOfTwo(k - 1)

\* a * 2^n
BigShl(a, n) == ShiftLimbs(BigTimes(a, PowerOfTwo(n % 15)), n \div 15)

RECURSIVE HalfFrom(_, _)
HalfFrom(a, i) ==
    IF i > Len(a) THEN <<>>
    ELSE <<(a[i] \div 2) + (Limb(a, i + 1) % 2) * (Base \div 2)>> \o HalfFrom(a, i + 1)

BigHalf(a) == Trim(HalfFrom(a, 1))

BigIsOdd(a) == a # <<>> /\ a[1] % 2 = 1

RECURSIVE BitsOf(_)
BitsOf(n) == IF n = 0 THEN 0 ELSE 1 + BitsOf(n \div 2)

\* The number of binary digits of a.
BigBits(a) == IF a = <<>> THEN 0 ELSE 15 * (Len(a) - 1) + BitsOf(a[Len(a)])

\* a \div 2^n
RECURSIVE BigShr(_, _)
BigShr(a, n) ==
    IF n >= 15 THEN BigShr(IF a = <<>> THEN <<>> ELSE Tail(a), n - 15)
    ELSE IF n = 0 THEN a
    ELSE BigShr(BigHalf(a), n - 1)

\* The greatest digit d + n, 0 <= n < 2 * step, with q * (d + n) <= r.
QuotientDigit[d \in Nat, step \in Nat, r \in Seq(Nat), q \in Seq(Nat)] ==
    IF step = 0 THEN d
    ELSE IF BigLess(r, BigTimes(q, d + step)) THEN QuotientDigit[d, step \div 2, r, q]
    ELSE QuotientDigit[d + step, step \div 2, r, q]

\* Long division of p by q, the limbs of p below the k-th still to be
\* brought down, with the quotient h and the remainder r so far: <<p \div q, p % q>>.
LongDivision[k \in Nat, p \in Seq(Nat), q \in Seq(Nat), h \in Seq(Nat), r \in Seq(Nat),
             digit \in Nat] ==
    IF digit = Base
    THEN IF k = 0 THEN <<Trim(h), r>>
         ELSE LongDivision[k, p, q, h, Trim(<<p[k]>> \o r),
                           QuotientDigit[0, Base \div 2, Trim(<<p[k]>> \o r), q]]
    ELSE LongDivision[k - 1, p, q, <<digit>> \o h, BigSub(r, BigTimes(q, digit)), Base]

BigDivMod(p, q) == LongDivision[Len(p), p, q, <<>>, <<>>, Base]

RECURSIVE BigToInt(_)
BigToInt(a) == IF a = <<>> THEN 0 ELSE a[1] + Base * BigToInt(Tail(a))

\* The rational number sign * p / q.
Rational(sign, p, q) == [sign |-> sign, p |-> p, q |-> q]

\* The double m * 2^e of the given sign for a mantissa m that may have 54 bits.
Normalized(sign, m, e) ==
    IF BigBits(m) = 54 THEN [sign |-> sign, m |-> BigHalf(m), e |-> e + 1]
    ELSE [sign |-> sign, m |-> m, e |-> e]

\* The quotient of 55 or 56 bits and whether a remainder is left, rounded to
\* 53 bits: kept are its leading 53 bits, rest the bits dropped.
RoundKept(sign, s, drop, kept, rest, remainder) ==
    Normalized(sign,
               IF \/ BigLess(BigShl(<<1>>, drop - 1), rest)
                  \/ rest = BigShl(<<1>>, drop - 1) /\ (remainder \/ BigIsOdd(kept))
               THEN BigAdd(kept, <<1>>) ELSE kept,
               drop - s)

RoundDropping(sign, s, h, remainder, drop, kept) ==
    RoundKept(sign, s, drop, kept, BigSub(h, BigShl(kept, drop)), remainder)

RoundQuotient(sign, s, quotient, drop) ==
    RoundDropping(sign, s, quotient[1], quotient[2] # <<>>, drop, BigShr(quotient[1], drop))

RoundDivided(sign, s, quotient) ==
    RoundQuotient(sign, s, quotient, BigBits(quotient[1]) - 53)

\* p * 2^s / q has 55 or 56 bits.
RoundScaledBy(sign, p, q, s) ==
    RoundDivided(sign, s, BigDivMod(IF s > 0 THEN BigShl(p, s) ELSE p,
                                    IF s < 0 THEN BigShl(q, -s) ELSE q))

\* The double nearest to the rational x, a tie going to the even mantissa:
\* [sign, m, e] stands for sign * m * 2^e, m of 53 bits, or m = <<>> for 0.
RoundToDouble(x) ==
    IF x.p = <<>> THEN [sign |-> x.sign, m |-> <<>>, e |-> 0]
    ELSE RoundScaledBy(x.sign, x.p, x.q, 55 - (BigBits(x.p) - BigBits(x.q)))

\* The rational number a double is.
ValueOf(d) ==
    IF d.e >= 0 THEN Rational(d.sign, BigShl(d.m, d.e), <<1>>)
    ELSE Rational(d.sign, d.m, BigShl(<<1>>, -d.e))

\* The double of the decimal literal num / den.
Double(num, den) ==
    RoundToDouble(Rational(IF num < 0 THEN -1 ELSE 1,
                           BigOf(IF num < 0 THEN -num ELSE num), BigOf(den)))

RationalProduct(a, b) == Rational(a.sign * b.sign, BigMul(a.p, b.p), BigMul(a.q, b.q))

RationalQuotient(a, b) == Rational(a.sign * b.sign, BigMul(a.p, b.q), BigMul(a.q, b.p))

\* l / q + r / q for the magnitudes l and r of the signs ls and rs.
SignedSum(ls, l, rs, r, q) ==
    IF ls = rs THEN Rational(ls, BigAdd(l, r), q)
    ELSE IF l = r THEN Rational(1, <<>>, q)
    ELSE IF BigLess(l, r) THEN Rational(rs, BigSub(r, l), q)
    ELSE Rational(ls, BigSub(l, r), q)

RationalSum(a, b) == SignedSum(a.sign, BigMul(a.p, b.q), b.sign, BigMul(b.p, a.q), BigMul(a.q, b.q))

\* x * y, x / y, x + y, -x and x - y in doubles.
Multiply(x, y) == RoundToDouble(RationalProduct(ValueOf(x), ValueOf(y)))

Quotient(x, y) == RoundToDouble(RationalQuotient(ValueOf(x), ValueOf(y)))

Plus(x, y) == RoundToDouble(RationalSum(ValueOf(x), ValueOf(y)))

Negated(x) == [x EXCEPT !.sign = -x.sign]

Minus(x, y) == Plus(x, Negated(y))

\* floor(a * scale + 1/2) for a rational a >= 0.
RoundedHalfUp(a, scale) ==
    BigToInt(BigDivMod(BigAdd(BigTimes(BigMul(a.p, BigOf(scale)), 2), a.q), BigTimes(a.q, 2))[1])

\* The digits of |x|.toFixed(k) for scale = 10^k: the integer n for which
\* n / scale - |x| is as close to 0 as possible, the larger n if there are two.
DigitsToFixed(x, scale) == RoundedHalfUp(ValueOf(x), scale)

\* Number(x.toFixed(2)), in money, for a number whose mathematical value is
\* the money value x and whose double is stored.  Off a half cent the value
\* decides: the double is within a few units in the 16th digit of x, and x
\* is at least 1/10000 away from the next half cent.  On a half cent the
\* double decides, being below, at or above it.
toFixed2(x, stored) ==
    LET n == IF Abs(x) % 100 = 50 THEN DigitsToFixed(stored, 100)
             ELSE (Abs(x) + 50) \div 100
    IN  IF x < 0 THEN -(n * 100) ELSE n * 100

\* riskAmount = starting_balance * (riskPercentage / 100) as the double the
\* code computes, riskPercentage in tenths.
riskAmountDouble(startingBalance, riskPercentage) ==
    Multiply(Double(startingBalance, 1), Quotient(Double(riskPercentage, 10), Double(100, 1)))

----------------------------------------------------------------------------
(* Dates.  A Date is the count of hours from 1970-01-01T00:00 in the time  *)
(* zone of the browser; new Date(trade.date) and new Date() yield such a   *)
(* count, and the getters below are those of the local time.  The browser  *)
(* runs in UTC, so that toISOString() prints the same day and hour.        *)

\* The count of days from 1970-01-01 to the day doy of the year y, both
\* counted from March 1.
DaysOfYearOfEra(era, yoe, doy) ==
    era * 146097 + (yoe * 365 + yoe \div 4 - yoe \div 100 + doy) - 719468

DaysOfMarchYear(y, mp, day) ==
    DaysOfYearOfEra(y \div 400, y - (y \div 400) * 400, (153 * mp + 2) \div 5 + day - 1)

\* The count of days from 1970-01-01 to a day of the Gregorian calendar (month 1..12).
DaysFromCivil(year, month, day) ==
    DaysOfMarchYear(IF month <= 2 THEN year - 1 ELSE year,
                    IF month > 2 THEN month - 3 ELSE month + 9, day)

\* The day of the Gregorian calendar whose year of the era is yoe, whose day
\* of the year, counted from March 1, is doy, in the month mp counted from March.
CivilOfMonth(era, yoe, doy, mp) ==
    LET month == IF mp < 10 THEN mp + 3 ELSE mp - 9
    IN  [year |-> yoe + era * 400 + (IF month <= 2 THEN 1 ELSE 0),
         month |-> month,
         day |-> doy - (153 * mp + 2) \div 5 + 1]

CivilOfDayOfYear(era, yoe, doy) == CivilOfMonth(era, yoe, doy, (5 * doy + 2) \div 153)

CivilOfYearOfEra(era, doe, yoe) ==
    CivilOfDayOfYear(era, yoe, doe - (365 * yoe + yoe \div 4 - yoe \div 100))

CivilOfDayOfEra(era, doe) ==
    CivilOfYearOfEra(era, doe, (doe - doe \div 1460 + doe \div 36524 - doe \div 146096) \div 365)

CivilOfEra(zz, era) == CivilOfDayOfEra(era, zz - era * 146097)

\* The day of the Gregorian calendar that is z days after 1970-01-01.
CivilFromDays(z) == CivilOfEra(z + 719468, (z + 719468) \div 146097)

\* new Date(year, monthIndex, day, hours), monthIndex counting from 0.
NewDate(year, monthIndex, day, hours) ==
    DaysFromCivil(year, monthIndex + 1, day) * 24 + hours

getFullYear(d) == CivilFromDays(d \div 24).year

getMonth(d) == CivilFromDays(d \div 24).month - 1

getDate(d) == CivilFromDays(d \div 24).day

\* The day of the week, Sunday = 0 (1970-01-01 was a Thursday).
getDay(d) == ((d \div 24) + 4) % 7

getHours(d) == d % 24

\* date-fns
startOfDay(d) == NewDate(getFullYear(d), getMonth(d), getDate(d), 0)

subDays(d, amount) == d - 24 * amount

subWeeks(d, amount) == subDays(d, 7 * amount)

\* startOfWeek(d, { weekStartsOn: 0 })
startOfWeek(d) == subDays(startOfDay(d), getDay(d))

FirstOfMonth(months) == DaysFromCivil(months \div 12, (months % 12) + 1, 1)

getDaysInMonth(year, monthIndex) ==
    FirstOfMonth(year * 12 + monthIndex + 1) - DaysFromCivil(year, monthIndex + 1, 1)

\* The day dayOfMonth of a month, or the month's last day if it is shorter.
setDateClamped(year, monthIndex, dayOfMonth, daysInMonth, hours) ==
    NewDate(year, monthIndex, IF dayOfMonth >= daysInMonth THEN daysInMonth ELSE dayOfMonth, hours)

setMonths(d, target) ==
    setDateClamped(target \div 12, target % 12, getDate(d),
                   getDaysInMonth(target \div 12, target % 12), getHours(d))

\* addMonths keeps the day of the month unless the target month is shorter,
\* and then yields that month's last day.
addMonths(d, amount) == setMonths(d, getFullYear(d) * 12 + getMonth(d) + amount)

subMonths(d, amount) == addMonths(d, -amount)

subYears(d, amount) == addMonths(d, -12 * amount)

\* Mutant of isSameDay: every date from the start of the day on.
isSameDay_sinceMidnight(a, b) == a >= startOfDay(b)

isSameDay(a, b) == startOfDay(a) = startOfDay(b)

\* Mutant of isSameWeek: every date from the start of the week on.
isSameWeek_sinceWeekStart(a, b) == a >= startOfWeek(b)

\* isSameWeek(a, b, { weekStartsOn: 0 })
isSameWeek(a, b) == startOfWeek(a) = startOfWeek(b)

isSameMonth(a, b) == getFullYear(a) = getFullYear(b) /\ getMonth(a) = getMonth(b)

isSameYear(a, b) == getFullYear(a) = getFullYear(b)

\* new Date(s) for a string s that is no date: Invalid Date, getTime() is NaN.
InvalidDate == null

\* isValid(date) of date-fns
isValid(d) == d # InvalidDate

\* d.toISOString().split('T')[0]: the day of d, as the count of days from 1970-01-01.
toISODate(d) == d \div 24

\* new Date(s) for a string s of the form yyyy-MM-dd: 00:00 UTC of that day.
NewDateOfISODate(day) == day * 24

\* format(d, 'yyyy-MM-dd'): the digits of year, month and day.
format_yyyyMMdd(d) ==
    LET civil == CivilFromDays(d \div 24) IN <<civil.year, civil.month, civil.day>>

----------------------------------------------------------------------------
(* Input domains *)

\* Account.starting_balance, in dollars.
Balances == {0, 1234, 10000}

Accounts == [starting_balance : Balances]

\* The starting balances of the accounts of the table and the review page.
\* Of $75, 1 % is 0.75, 0.5 % is the half cent 0.375, which a double holds
\* exactly, 1 % times 1.7 the half cent 1.275, whose double is below it, and
\* 0.5 % times 1.7 is 0.6375.
RowBalances == {0, 75}

RowAccounts == [starting_balance : RowBalances]

\* Trade.pnl_dollar: absent, zero and -$37.50.
PnlDollars == {null, 0, -375000}

\* Trade.risk_percentage: absent, 0 and 0.5 %.
RiskPercentages == {null, 0, 5}

\* Trade.rr: absent, 0 and 1.7.
RRs == {null, 0, 17}

\* Trade.result: the three outcomes, 'Win' and 'Loss' in two letter cases,
\* and 'BE', a string the calculator does not know.
Results == { <<"W","i","n">>, <<"W","I","N">>,
             <<"L","o","s","s">>, <<"L","O","S","S">>,
             <<"B","r","e","a","k","e","v","e","n">>, <<"B","E">> }

\* The trades of the table and the review page; date is a calendar day number.
Trades == [pnl_dollar : PnlDollars, risk_percentage : RiskPercentages,
           rr : RRs, result : Results, date : {NewDate(2024, 2, 15, 9)},
           created_at : {NewDate(2024, 2, 15, 10)},
           updated_at : {NewDate(2024, 2, 15, 10)}]

\* The trades the pages are followed with through deleting and editing:
\* pnl_dollar absent, risk_percentage and rr absent, 0 and 2, every result.
JournalTrades == [pnl_dollar : {null}, risk_percentage : {null, 0, 20},
                  rr : {null, 0, 20}, result : Results, date : {NewDate(2024, 2, 15, 9)},
                  created_at : {NewDate(2024, 2, 15, 10)},
                  updated_at : {NewDate(2024, 2, 15, 10)}]

----------------------------------------------------------------------------
(* The P&L calculator *)

\* Mutants of calculatePnL.
\* pnl_dollar tested for truthiness (if (trade.pnl_dollar)), so 0 is "absent".
calculatePnL_truthyPnlDollar(t, account) ==
    IF account = <<>> THEN 0
    ELSE IF t.pnl_dollar # null /\ t.pnl_dollar # 0 THEN Number(t.pnl_dollar)
    ELSE LET riskPercentage == OrDefault(t.risk_percentage, 10)
             riskAmount == account[1].starting_balance * riskPercentage * 10
             riskAmount64 == riskAmountDouble(account[1].starting_balance, riskPercentage)
             rrRatio == OrDefault(t.rr, 10)
             result == toLowerCase(t.result)
         IN  IF result = win THEN toFixed2((riskAmount * rrRatio) \div 10,
                                              Multiply(riskAmount64, Double(rrRatio, 10)))
             ELSE IF result = loss THEN toFixed2(-riskAmount, Negated(riskAmount64))
             ELSE 0

\* the win amount truncated to cents instead of rounded.
calculatePnL_truncates(t, account) ==
    IF account = <<>> THEN 0
    ELSE IF t.pnl_dollar # null THEN Number(t.pnl_dollar)
    ELSE LET riskPercentage == OrDefault(t.risk_percentage, 10)
             riskAmount == account[1].starting_balance * riskPercentage * 10
             riskAmount64 == riskAmountDouble(account[1].starting_balance, riskPercentage)
             rrRatio == OrDefault(t.rr, 10)
             result == toLowerCase(t.result)
         IN  IF result = win THEN (((riskAmount * rrRatio) \div 10) \div 100) * 100
             ELSE IF result = loss THEN toFixed2(-riskAmount, Negated(riskAmount64))
             ELSE 0

\* a loss scaled by the reward ratio, as a win is.
calculatePnL_lossTimesRR(t, account) ==
    IF account = <<>> THEN 0
    ELSE IF t.pnl_dollar # null THEN Number(t.pnl_dollar)
    ELSE LET riskPercentage == OrDefault(t.risk_percentage, 10)
             riskAmount == account[1].starting_balance * riskPercentage * 10
             riskAmount64 == riskAmountDouble(account[1].starting_balance, riskPercentage)
             rrRatio == OrDefault(t.rr, 10)
             result == toLowerCase(t.result)
         IN  IF result = win THEN toFixed2((riskAmount * rrRatio) \div 10,
                                              Multiply(riskAmount64, Double(rrRatio, 10)))
             ELSE IF result = loss THEN toFixed2(-((riskAmount * rrRatio) \div 10),
                                               Negated(Multiply(riskAmount64, Double(rrRatio, 10))))
             ELSE 0

\* only 'win' is matched; every other result is a loss.
calculatePnL_defaultIsLoss(t, account) ==
    IF account = <<>> THEN 0
    ELSE IF t.pnl_dollar # null THEN Number(t.pnl_dollar)
    ELSE LET riskPercentage == OrDefault(t.risk_percentage, 10)
             riskAmount == account[1].starting_balance * riskPercentage * 10
             riskAmount64 == riskAmountDouble(account[1].starting_balance, riskPercentage)
             rrRatio == OrDefault(t.rr, 10)
             result == toLowerCase(t.result)
         IN  IF result = win THEN toFixed2((riskAmount * rrRatio) \div 10,
                                              Multiply(riskAmount64, Double(rrRatio, 10)))
             ELSE toFixed2(-riskAmount, Negated(riskAmount64))

\* the stored pnl_dollar returned before the account is looked at.
calculatePnL_pnlDollarFirst(t, account) ==
    IF t.pnl_dollar # null THEN Number(t.pnl_dollar)
    ELSE IF account = <<>> THEN 0
    ELSE LET riskPercentage == OrDefault(t.risk_percentage, 10)
             riskAmount == account[1].starting_balance * riskPercentage * 10
             riskAmount64 == riskAmountDouble(account[1].starting_balance, riskPercentage)
             rrRatio == OrDefault(t.rr, 10)
             result == toLowerCase(t.result)
         IN  IF result = win THEN toFixed2((riskAmount * rrRatio) \div 10,
                                              Multiply(riskAmount64, Double(rrRatio, 10)))
             ELSE IF result = loss THEN toFixed2(-riskAmount, Negated(riskAmount64))
             ELSE 0

\* TradeReview.calculatePnL(trade), account being the activeAccount of the
\* render it closes over.
calculatePnL(t, account) ==
    IF account = <<>> THEN 0
    ELSE IF t.pnl_dollar # null THEN Number(t.pnl_dollar)
    ELSE LET riskPercentage == OrDefault(t.risk_percentage, 10)
             riskAmount == account[1].starting_balance * riskPercentage * 10
             riskAmount64 == riskAmountDouble(account[1].starting_balance, riskPercentage)
             rrRatio == OrDefault(t.rr, 10)
             result == toLowerCase(t.result)
         IN  IF result = win THEN toFixed2((riskAmount * rrRatio) \div 10,
                                              Multiply(riskAmount64, Double(rrRatio, 10)))
             ELSE IF result = loss THEN toFixed2(-riskAmount, Negated(riskAmount64))
             ELSE 0

\* Mutant of calculateTradePnL: the products are returned as they are, not
\* rounded to cents.
calculateTradePnL_unrounded(t, account) ==
    IF account = <<>> THEN 0
    ELSE IF t.pnl_dollar # null THEN Number(t.pnl_dollar)
    ELSE LET riskPercentage == OrDefault(t.risk_percentage, 10)
             riskAmount == account[1].starting_balance * riskPercentage * 10
             result == toLowerCase(t.result)
         IN  IF result = win THEN (riskAmount * OrDefault(t.rr, 10)) \div 10
             ELSE IF result = loss THEN -riskAmount
             ELSE 0

\* TradingTable.calculateTradePnL(trade), account being the activeAccount of
\* the render it closes over.
calculateTradePnL(t, account) ==
    IF account = <<>> THEN 0
    ELSE IF t.pnl_dollar # null THEN Number(t.pnl_dollar)
    ELSE LET riskPercentage == OrDefault(t.risk_percentage, 10)
             riskAmount == account[1].starting_balance * riskPercentage * 10
             riskAmount64 == riskAmountDouble(account[1].starting_balance, riskPercentage)
             rrRatio == OrDefault(t.rr, 10)
             result == toLowerCase(t.result)
         IN  IF result = win THEN toFixed2((riskAmount * rrRatio) \div 10,
                                              Multiply(riskAmount64, Double(rrRatio, 10)))
             ELSE IF result = loss THEN toFixed2(-riskAmount, Negated(riskAmount64))
             ELSE 0

----------------------------------------------------------------------------
(* The dashboard statistics: TradingDashboard.filteredStats *)

RECURSIVE GCD(_, _)
GCD(a, b) == IF b = 0 THEN a ELSE GCD(b, a % b)

\* The quotient n / d of two numbers n >= 0, d > 0, as a reduced fraction.
Fraction(n, d) == LET g == GCD(n, d) IN <<n \div g, d \div g>>

\* The number Infinity: distinct from every fraction, whose denominator is > 0.
Infinity == <<1, 0>>

\* array.reduce((sum, x) => sum + x, 0)
RECURSIVE SumSeq(_)
SumSeq(xs) == IF xs = <<>> THEN 0 ELSE xs[1] + SumSeq(Tail(xs))

\* Math.max(...xs) of a non-empty array xs.
Max(xs) == CHOOSE m \in {xs[i] : i \in DOMAIN xs} : \A i \in DOMAIN xs : xs[i] <= m

\* useTrades().calculatePnL(trade, account): the calculator of section 4.1,
\* with the account passed in.
useTrades_calculatePnL(t, account) ==
    IF account = <<>> THEN 0
    ELSE IF t.pnl_dollar # null THEN Number(t.pnl_dollar)
    ELSE LET riskPercentage == OrDefault(t.risk_percentage, 10)
             riskAmount == account[1].starting_balance * riskPercentage * 10
             riskAmount64 == riskAmountDouble(account[1].starting_balance, riskPercentage)
             rrRatio == OrDefault(t.rr, 10)
             result == toLowerCase(t.result)
         IN  IF result = win THEN toFixed2((riskAmount * rrRatio) \div 10,
                                              Multiply(riskAmount64, Double(rrRatio, 10)))
             ELSE IF result = loss THEN toFixed2(-riskAmount, Negated(riskAmount64))
             ELSE 0

\* filteredTrades.map(trade => ({...trade, calculatedPnL: calculatePnL(trade, activeAccount)}))
tradesWithPnL(ts, account) ==
    [i \in DOMAIN ts |->
        [pnl_dollar |-> ts[i].pnl_dollar, risk_percentage |-> ts[i].risk_percentage,
         rr |-> ts[i].rr, result |-> ts[i].result, date |-> ts[i].date, created_at |-> ts[i].created_at,
         updated_at |-> ts[i].updated_at,
         calculatedPnL |-> useTrades_calculatePnL(ts[i], account)]]

IsWin(t) == toLowerCase(t.result) = win

IsLoss(t) == toLowerCase(t.result) = loss

IsBreakeven(t) == toLowerCase(t.result) = breakeven

\* tradesWithPnL.filter(t => t.result.toLowerCase() === 'win')
wins(twp) == SelectSeq(twp, IsWin)

losses(twp) == SelectSeq(twp, IsLoss)

breakevens(twp) == SelectSeq(twp, IsBreakeven)

\* Mutant of totalWinPnL: the wins summed with their sign (no Math.abs).
totalWinPnL_signed(ws) == SumSeq([i \in DOMAIN ws |-> ws[i].calculatedPnL])

\* wins.reduce((sum, trade) => sum + Math.abs(trade.calculatedPnL), 0)
totalWinPnL(ws) == SumSeq([i \in DOMAIN ws |-> Abs(ws[i].calculatedPnL)])

\* losses.reduce((sum, trade) => sum + Math.abs(trade.calculatedPnL), 0)
totalLossPnL(ls) == SumSeq([i \in DOMAIN ls |-> Abs(ls[i].calculatedPnL)])

\* Mutant of totalPnL: gross wins less gross losses (totalWinPnL - totalLossPnL).
totalPnL_winsLessLosses(twp) ==
    totalWinPnL(SelectSeq(twp, IsWin)) - totalLossPnL(SelectSeq(twp, IsLoss))

\* tradesWithPnL.reduce((sum, trade) => sum + trade.calculatedPnL, 0)
totalPnL(twp) == SumSeq([i \in DOMAIN twp |-> twp[i].calculatedPnL])

IsPositive(x) == x > 0

\* wins.map(t => t.rr || 0).filter(rr => rr > 0), in tenths
winRRs(ws) == SelectSeq([i \in DOMAIN ws |-> OrDefault(ws[i].rr, 0)], IsPositive)

\* losses.map(() => 1).filter(r => r > 0), in tenths
lossRRs(ls) == SelectSeq([i \in DOMAIN ls |-> 10], IsPositive)

\* rrs.length > 0 ? rrs.reduce((a, b) => a + b, 0) / rrs.length : 0, in R
avgRR(rrs) ==
    IF Len(rrs) > 0 THEN Fraction(SumSeq(rrs), 10 * Len(rrs)) ELSE <<0, 1>>

\* winRRs.length > 0 ? Math.max(...winRRs) : 0, in tenths
topWinRR(rrs) == IF Len(rrs) > 0 THEN Max(rrs) ELSE 0

\* Mutant of profitFactor: with no losing dollars the factor is the winning total.
profitFactor_noLossIsWinTotal(winPnL, lossPnL) ==
    IF lossPnL > 0 THEN Fraction(winPnL, lossPnL) ELSE <<winPnL, 1>>

\* totalLossPnL > 0 ? totalWinPnL / totalLossPnL : totalWinPnL > 0 ? Infinity : 0
profitFactor(winPnL, lossPnL) ==
    IF lossPnL > 0 THEN Fraction(winPnL, lossPnL)
    ELSE IF winPnL > 0 THEN Infinity
    ELSE <<0, 1>>

\* Mutant of streaks: a win or a loss leaves the other counter as it is.
RECURSIVE streaks_otherKept(_, _)
streaks_otherKept(twp, n) ==
    IF n = 0 THEN <<0, 0>>
    ELSE LET before == streaks_otherKept(twp, n - 1)
             result == toLowerCase(twp[n].result)
         IN  IF result = win THEN <<before[1] + 1, before[2]>>
             ELSE IF result = loss THEN <<before[1], before[2] + 1>>
             ELSE <<0, 0>>

\* The streak loop after its first n iterations: <<currentWinStreak, currentLossStreak>>.
RECURSIVE streaks(_, _)
streaks(twp, n) ==
    IF n = 0 THEN <<0, 0>>
    ELSE LET before == streaks(twp, n - 1)
             result == toLowerCase(twp[n].result)
         IN  IF result = win THEN <<before[1] + 1, 0>>
             ELSE IF result = loss THEN <<0, before[2] + 1>>
             ELSE <<0, 0>>

\* Mutant of dateKey: the day the trade was logged.
dateKey_createdAt(t) == format_yyyyMMdd(t.created_at)

\* format(new Date(trade.date), 'yyyy-MM-dd'): the trade's calendar day.
dateKey(t) == format_yyyyMMdd(t.date)

\* tradesByDate after the forEach: each day's sum of calculatedPnL.
tradesByDate(twp) ==
    LET keys == [i \in DOMAIN twp |-> dateKey(twp[i])]
    IN  [d \in {keys[i] : i \in DOMAIN twp} |->
            SumSeq([i \in DOMAIN twp |-> IF keys[i] = d THEN twp[i].calculatedPnL ELSE 0])]

bestDayProfit(twp) ==
    LET byDate == tradesByDate(twp)
    IN  IF DOMAIN byDate # {}
        THEN CHOOSE m \in {byDate[d] : d \in DOMAIN byDate} :
                 \A d \in DOMAIN byDate : byDate[d] <= m
        ELSE 0

\* Mutant of winRate: the quotient is not scaled to a percentage.
winRate_notTimes100(nWins, nTrades) ==
    IF nTrades > 0 THEN Fraction(nWins, nTrades) ELSE <<0, 1>>

\* tradesWithPnL.length > 0 ? (wins.length / tradesWithPnL.length) * 100 : 0, in percent
winRate(nWins, nTrades) ==
    IF nTrades > 0 THEN Fraction(nWins * 100, nTrades) ELSE <<0, 1>>

\* format(date, 'yyyy-MM-dd') of an Invalid Date throws; nothing in
\* TradingDashboard catches it, so the evaluation of filteredStats throws.
RangeError == [name |-> "RangeError", message |-> "Invalid time value"]

\* filteredStats' value when there is nothing to aggregate.
ZeroStats ==
    [totalTrades |-> 0, wins |-> 0, losses |-> 0, breakevens |-> 0,
     winRate |-> <<0, 1>>, avgWinRR |-> <<0, 1>>, avgLossRR |-> <<0, 1>>,
     profitFactor |-> <<0, 1>>, currentWinStreak |-> 0, currentLossStreak |-> 0,
     topWinRR |-> 0, topLossRR |-> 0, totalRR |-> 0,
     totalPnL |-> 0, bestDayProfit |-> 0]

\* Mutant of filteredStats: only the empty list is caught, the trades are
\* counted without an account.
filteredStats_countsWithoutAccount(ts, account) ==
    IF Len(ts) = 0 THEN ZeroStats
    ELSE LET twp == tradesWithPnL(ts, account)
         IN  [ZeroStats EXCEPT !.totalTrades = Len(twp),
                               !.wins = Len(wins(twp)),
                               !.losses = Len(losses(twp)),
                               !.breakevens = Len(breakevens(twp)),
                               !.winRate = winRate(Len(wins(twp)), Len(twp))]

\* The object filteredStats returns, from tradesWithPnL, its wins and losses,
\* totalPnL and the two streaks.
statsReturned(twp, ws, ls, total, streak) ==
    [totalTrades |-> Len(twp),
     wins |-> Len(ws),
     losses |-> Len(ls),
     breakevens |-> Len(breakevens(twp)),
     winRate |-> winRate(Len(ws), Len(twp)),
     avgWinRR |-> avgRR(winRRs(ws)),
     avgLossRR |-> avgRR(lossRRs(ls)),
     profitFactor |-> profitFactor(totalWinPnL(ws), totalLossPnL(ls)),
     currentWinStreak |-> streak[1],
     currentLossStreak |-> streak[2],
     topWinRR |-> topWinRR(winRRs(ws)),
     topLossRR |-> 10,
     totalRR |-> total,
     totalPnL |-> total,
     bestDayProfit |-> bestDayProfit(twp)]

\* filteredStats once tradesWithPnL is mapped.
statsOfTradesWithPnL(twp) ==
    statsReturned(twp, wins(twp), losses(twp), totalPnL(twp), streaks(twp, Len(twp)))

\* const filteredStats = useMemo(...)
filteredStats(ts, account) ==
    IF Len(ts) = 0 \/ account = <<>> THEN ZeroStats
    ELSE IF \E i \in DOMAIN ts : ~isValid(ts[i].date) THEN RangeError
    ELSE statsOfTradesWithPnL(tradesWithPnL(ts, account))

\* A money value as the double the code holds: Number(pnl_dollar) and
\* Number(x.toFixed(2)) are the doubles nearest to the decimal.
DoubleOfMoney(x) == Double(x, 10000)

\* xs.reduce((sum, x) => sum + x, 0) after the first n elements, in doubles.
RECURSIVE SumOfDoubles(_, _)
SumOfDoubles(xs, n) ==
    IF n = 0 THEN Double(0, 1) ELSE Plus(SumOfDoubles(xs, n - 1), xs[n])

\* totalWinPnL and totalLossPnL as the doubles the reduce leaves.
totalAbsPnLDouble(ts) ==
    SumOfDoubles([i \in DOMAIN ts |-> DoubleOfMoney(Abs(ts[i].calculatedPnL))], Len(ts))

\* totalPnL as the double the reduce leaves.
totalPnLDouble(twp) ==
    SumOfDoubles([i \in DOMAIN twp |-> DoubleOfMoney(twp[i].calculatedPnL)], Len(twp))

\* filteredStats.totalPnL > 0 and < 0.  A sum that is not 0 has the sign of
\* its double; a sum that is 0 may leave a double that is not (0.1 + 0.2 - 0.3).
totalPnLIsPositive(s, twp) ==
    IF s.totalPnL # 0 THEN s.totalPnL > 0
    ELSE totalPnLDouble(twp).m # <<>> /\ totalPnLDouble(twp).sign = 1

totalPnLIsNegative(s, twp) ==
    IF s.totalPnL # 0 THEN s.totalPnL < 0
    ELSE totalPnLDouble(twp).m # <<>> /\ totalPnLDouble(twp).sign = -1

\* The digits of q.toFixed(k), scale = 10^k, for a number whose mathematical
\* value is the fraction q = <<n, d>> and whose double is stored: q times
\* 10^k rounded to the nearest integer, and on a tie what the double, which
\* is below, at or above the tie, rounds to.
RoundScaled(q, stored, scale) ==
    LET n == Abs(q[1]) * scale
        r == IF (2 * n + q[2]) % (2 * q[2]) = 0 THEN DigitsToFixed(stored, scale)
             ELSE (2 * n + q[2]) \div (2 * q[2])
    IN  IF q[1] < 0 THEN -r ELSE r

\* LOSSES card, change: `${(100 - filteredStats.winRate).toFixed(1)}%`, in tenths of a percent.
lossesCardChange(s) ==
    RoundScaled(<<100 * s.winRate[2] - s.winRate[1], s.winRate[2]>>,
                Minus(Double(100, 1),
                      Multiply(Quotient(Double(s.wins, 1), Double(s.totalTrades, 1)),
                               Double(100, 1))),
                10)

\* PROFIT FACTOR card, value: profitFactor === Infinity ? (the infinity sign,
\* U+221E) : profitFactor.toFixed(2): <<"U+221E">>, or <<"toFixed(2)", the
\* factor in hundredths>>; twp is the memo's tradesWithPnL.
profitFactorCardValue(s, twp) ==
    IF s.profitFactor = Infinity THEN <<"U+221E">>
    ELSE <<"toFixed(2)",
           RoundScaled(s.profitFactor,
                       Quotient(totalAbsPnLDouble(wins(twp)), totalAbsPnLDouble(losses(twp))),
                       100)>>

----------------------------------------------------------------------------
(* The trade review page's risk metrics: TradeReview.calculateRiskMetrics *)

\* The three values of a JavaScript quotient that are no number: 0/0, x/0 and -x/0.
NaN == <<0, 0>>

NegInfinity == <<-1, 0>>

\* n / d in JavaScript, as a reduced fraction with a positive denominator.
Divide(n, d) ==
    IF d = 0 THEN (IF n = 0 THEN NaN ELSE IF n > 0 THEN Infinity ELSE NegInfinity)
    ELSE LET g == GCD(Abs(n), Abs(d))
             sign == IF d < 0 THEN -1 ELSE 1
         IN  <<(sign * n) \div g, Abs(d) \div g>>

\* calculateRiskMetrics(trade), account being the activeAccount of the render
\* it closes over: null is <<>>; percentages are fractions of a percent.
calculateRiskMetrics(t, account) ==
    IF account = <<>> THEN <<>>
    ELSE LET riskPercentage == OrDefault(t.risk_percentage, 10)
             riskAmount == account[1].starting_balance * riskPercentage * 10
             rrRatio == OrDefault(t.rr, 10)
             tradePnl == calculatePnL(t, account)
             potentialReward == (riskAmount * rrRatio) \div 10
             actualReturnPercentage ==
                 Divide(tradePnl * 100, account[1].starting_balance * 10000)
             expectedPnL == IF t.result = <<"W","i","n">> THEN potentialReward ELSE -riskAmount
             efficiency == IF expectedPnL # 0 THEN Divide(tradePnl * 100, expectedPnL)
                           ELSE <<100, 1>>
         IN  <<[riskPercentage |-> riskPercentage,
                riskAmount |-> riskAmount,
                rrRatio |-> rrRatio,
                potentialReward |-> potentialReward,
                actualReturnPercentage |-> actualReturnPercentage,
                efficiency |-> efficiency,
                riskRewardQuality |-> IF rrRatio >= 20 THEN "Excellent"
                                      ELSE IF rrRatio >= 15 THEN "Good"
                                      ELSE IF rrRatio >= 10 THEN "Fair"
                                      ELSE "Poor"]>>

\* The decimal digits.
DigitChars == <<"0", "1", "2", "3", "4", "5", "6", "7", "8", "9">>

\* String(n) for a natural number n.
RECURSIVE DigitsOf(_)
DigitsOf(n) ==
    IF n < 10 THEN <<DigitChars[n + 1]>>
    ELSE DigitsOf(n \div 10) \o <<DigitChars[(n % 10) + 1]>>

\* q.toFixed(2) for a JavaScript number whose mathematical value is the
\* fraction q, whose double is stored and which is negative or not.
toFixed2String(q, stored, negative) ==
    IF q = NaN THEN <<"N","a","N">>
    ELSE IF q = Infinity THEN <<"I","n","f","i","n","i","t","y">>
    ELSE IF q = NegInfinity THEN <<"-","I","n","f","i","n","i","t","y">>
    ELSE LET hundredths == RoundScaled(<<Abs(q[1]), q[2]>>, stored, 100)
         IN  (IF negative THEN <<"-">> ELSE <<>>)
                 \o DigitsOf(hundredths \div 100)
                 \o <<".", DigitChars[((hundredths \div 10) % 10) + 1],
                           DigitChars[(hundredths % 10) + 1]>>

\* PNL $ card, value:
\* `${filteredStats.totalPnL > 0 ? '+' : ''}$${Math.abs(filteredStats.totalPnL).toFixed(2)}`
\* twp is the memo's tradesWithPnL.
pnlDollarCardValue(s, twp) ==
    (IF totalPnLIsPositive(s, twp) THEN <<"+">> ELSE <<>>)
        \o <<"$">> \o toFixed2String(Fraction(Abs(s.totalPnL), 10000), totalPnLDouble(twp), FALSE)

\* PNL % card, value: `${filteredStats.totalPnL > 0 ? '+' : ''}${activeAccount
\* ? (filteredStats.totalPnL / activeAccount.starting_balance * 100).toFixed(2) : '0.00'}%`
\* twp is the memo's tradesWithPnL.
pnlPercentCardValue(s, twp, account) ==
    (IF totalPnLIsPositive(s, twp) THEN <<"+">> ELSE <<>>)
        \o (IF account # <<>>
            THEN toFixed2String(
                     IF account[1].starting_balance # 0
                     THEN Divide(s.totalPnL, 100 * account[1].starting_balance)
                     ELSE IF totalPnLIsPositive(s, twp) THEN Infinity
                     ELSE IF totalPnLIsNegative(s, twp) THEN NegInfinity
                     ELSE NaN,
                     Multiply(Quotient(totalPnLDouble(twp), Double(account[1].starting_balance, 1)),
                              Double(100, 1)),
                     totalPnLIsNegative(s, twp))
            ELSE <<"0",".","0","0">>)
        \o <<"%">>

\* valueStr.replace(/[^\d.-]/g, ""): the digits, points and minus signs of the string.
keepNumeric(str) ==
    SelectSeq(str, LAMBDA c : c \in {DigitChars[i] : i \in DOMAIN DigitChars} \cup {".", "-"})

\* The value of a digit character.
DigitValue(c) == (CHOOSE i \in DOMAIN DigitChars : DigitChars[i] = c) - 1

\* The length of the longest prefix of str made of digits.
RECURSIVE DigitRun(_)
DigitRun(str) ==
    IF str = <<>> \/ str[1] \notin {DigitChars[i] : i \in DOMAIN DigitChars} THEN 0
    ELSE 1 + DigitRun(Tail(str))

\* The number a string of digits spells (0 for the empty string).
RECURSIVE NumberOfDigits(_)
NumberOfDigits(str) ==
    IF str = <<>> THEN 0
    ELSE 10 * NumberOfDigits(SubSeq(str, 1, Len(str) - 1)) + DigitValue(str[Len(str)])

\* 10^k
RECURSIVE PowerOfTen(_)
PowerOfTen(k) == IF k = 0 THEN 1 ELSE 10 * PowerOfTen(k - 1)

\* parseFloat(str) for a string of digits, points and minus signs: an
\* optional minus sign, digits, and a point with digits; NaN if no digit is
\* read.  The result is [negative, magnitude]: -0 is told from 0.
parseFloat(str) ==
    LET negative == str # <<>> /\ str[1] = "-"
        body == IF negative THEN Tail(str) ELSE str
        whole == DigitRun(body)
        rest == SubSeq(body, whole + 1, Len(body))
        decimals == IF rest # <<>> /\ rest[1] = "." THEN DigitRun(Tail(rest)) ELSE 0
    IN  IF whole + decimals = 0 THEN [negative |-> FALSE, magnitude |-> NaN]
        ELSE [negative |-> negative,
              magnitude |-> Fraction(NumberOfDigits(SubSeq(body, 1, whole)) * PowerOfTen(decimals)
                                        + NumberOfDigits(SubSeq(rest, 2, decimals + 1)),
                                     PowerOfTen(decimals))]

\* StatsCard for the titles "PNL %" and "PNL $": numericValue = parseFloat(...) || 0
\* (0 for NaN, 0 and -0), isPositive = numericValue >= 0, isNegative = numericValue < 0.
StatsCard(value) ==
    LET parsed == parseFloat(keepNumeric(value))
        isZero == parsed.magnitude = NaN \/ parsed.magnitude[1] = 0
    IN  [isPositive |-> isZero \/ ~parsed.negative,
         isNegative |-> ~isZero /\ parsed.negative]

----------------------------------------------------------------------------
(* The dashboard's time filter and equity curve: TradingDashboard.filteredTrades *)
(* and TradingDashboard.equityData                                              *)

\* The keywords the switch of filteredTrades has a case for; with an Invalid
\* Date every one of their comparisons is false.
DatedKeywords == {"today", "yesterday", "this-week", "last-week", "this-month",
                  "last-month", "3-months", "this-year", "last-year"}

\* The keywords of the TimeFilter buttons, and one that filteredTrades has no case for.
Filters == {"all", "today", "yesterday", "this-week", "last-week", "this-month",
            "last-month", "3-months", "this-year", "last-year", "custom"}

\* Mutant of threeMonthsAgo: a window of ninety days.
threeMonthsAgo_ninetyDays(today) == subDays(today, 90)

\* const threeMonthsAgo = subMonths(today, 3)
threeMonthsAgo(today) == subMonths(today, 3)

\* Mutant of passesFilter: the day the trade was logged is compared.
passesFilter_byCreatedAt(t, filter, clock) ==
    LET today == NewDate(getFullYear(clock), getMonth(clock), getDate(clock), 0)
        yesterday == subDays(today, 1)
        tradeDate == t.created_at
    IN  IF ~isValid(tradeDate) THEN filter \notin DatedKeywords
        ELSE
        CASE filter = "today" -> isSameDay(tradeDate, today)
          [] filter = "yesterday" -> isSameDay(tradeDate, yesterday)
          [] filter = "this-week" -> isSameWeek(tradeDate, today)
          [] filter = "last-week" -> isSameWeek(tradeDate, subWeeks(today, 1))
          [] filter = "this-month" -> isSameMonth(tradeDate, today)
          [] filter = "last-month" -> isSameMonth(tradeDate, subMonths(today, 1))
          [] filter = "3-months" -> tradeDate >= threeMonthsAgo(today)
          [] filter = "this-year" -> isSameYear(tradeDate, today)
          [] filter = "last-year" -> isSameYear(tradeDate, subYears(today, 1))
          [] OTHER -> TRUE

\* The callback of trades.filter: whether the trade passes the active filter
\* when new Date() reads clock.
passesFilter(t, filter, clock) ==
    LET today == NewDate(getFullYear(clock), getMonth(clock), getDate(clock), 0)
        yesterday == subDays(today, 1)
        tradeDate == t.date
    IN  IF ~isValid(tradeDate) THEN filter \notin DatedKeywords
        ELSE
        CASE filter = "today" -> isSameDay(tradeDate, today)
          [] filter = "yesterday" -> isSameDay(tradeDate, yesterday)
          [] filter = "this-week" -> isSameWeek(tradeDate, today)
          [] filter = "last-week" -> isSameWeek(tradeDate, subWeeks(today, 1))
          [] filter = "this-month" -> isSameMonth(tradeDate, today)
          [] filter = "last-month" -> isSameMonth(tradeDate, subMonths(today, 1))
          [] filter = "3-months" -> tradeDate >= threeMonthsAgo(today)
          [] filter = "this-year" -> isSameYear(tradeDate, today)
          [] filter = "last-year" -> isSameYear(tradeDate, subYears(today, 1))
          [] OTHER -> TRUE

\* const filteredTrades = useMemo(...): trades.filter(...)
filterTrades(ts, filter, clock) ==
    LET passes(t) == passesFilter(t, filter, clock)
    IN  SelectSeq(ts, passes)

\* (a, b) => new Date(a.date).getTime() - new Date(b.date).getTime(), as
\* Array.prototype.sort reads it: the sign, and 0 where it is NaN.
dateCompare(a, b) ==
    IF ~isValid(a.date) \/ ~isValid(b.date) THEN 0
    ELSE IF a.date < b.date THEN -1
    ELSE IF a.date > b.date THEN 1
    ELSE 0

\* The stable ascending sort by dateCompare: trades that compare equal stay
\* in their order in ts.
RECURSIVE sortByDate(_)
sortByDate(ts) ==
    IF ts = <<>> THEN <<>>
    ELSE LET front == sortByDate(SubSeq(ts, 1, Len(ts) - 1))
             last == ts[Len(ts)]
             k == Cardinality({i \in DOMAIN front : dateCompare(front[i], last) <= 0})
         IN  SubSeq(front, 1, k) \o <<last>> \o SubSeq(front, k + 1, Len(front))

\* The arrangements of the elements of ts.
Arrangements(ts) ==
    {[i \in DOMAIN ts |-> ts[p[i]]] :
        p \in {q \in [DOMAIN ts -> DOMAIN ts] : \A i, j \in DOMAIN ts : q[i] = q[j] => i = j}}

\* dateCompare is a consistent comparator for the elements of ts: comparing
\* equal and comparing less are transitive.  An Invalid Date compares equal
\* to every date, so it breaks this as soon as two other dates differ.
dateCompareIsConsistent(ts) ==
    \A i, j, k \in DOMAIN ts :
        /\ (dateCompare(ts[i], ts[j]) = 0 /\ dateCompare(ts[j], ts[k]) = 0)
              => dateCompare(ts[i], ts[k]) = 0
        /\ (dateCompare(ts[i], ts[j]) < 0 /\ dateCompare(ts[j], ts[k]) < 0)
              => dateCompare(ts[i], ts[k]) < 0

\* [...trades].sort((a, b) => new Date(a.date).getTime() - new Date(b.date).getTime()):
\* the arrays the sort can return.  With a consistent comparator it is the
\* stable sort; otherwise the order is implementation-defined.
sortedByDate(ts) ==
    IF dateCompareIsConsistent(ts) THEN {sortByDate(ts)} ELSE Arrangements(ts)

\* Mutant of equityDataMemo: the points follow the order of trades.
equityDataMemo_unsorted(ts, account, clock) ==
    IF account = <<>> \/ Len(ts) = 0
    THEN {[points |-> <<[date |-> clock, value |-> 0]>>, trades |-> ts]}
    ELSE LET pnls == [i \in DOMAIN ts |-> useTrades_calculatePnL(ts[i], account)]
         IN  {[points |-> <<[date |-> ts[1].date, value |-> 0]>> \o
                          [i \in DOMAIN ts |->
                              [date |-> ts[i].date, value |-> SumSeq(SubSeq(pnls, 1, i))]],
               trades |-> ts]}

\* The running sum of the P&L of the first i trades of sorted.
cumulativePnL(sorted, account, i) ==
    SumSeq([j \in 1..i |-> useTrades_calculatePnL(sorted[j], account)])

\* Mutant of equityDataMemo: the curve always starts at the reading of the clock.
equityDataMemo_startsAtClock(ts, account, clock) ==
    IF account = <<>> \/ Len(ts) = 0
    THEN {[points |-> <<[date |-> clock, value |-> 0]>>, trades |-> ts]}
    ELSE {[points |-> <<[date |-> clock, value |-> 0]>> \o
                      [i \in DOMAIN sorted |->
                          [date |-> sorted[i].date, value |-> cumulativePnL(sorted, account, i)]],
           trades |-> ts] : sorted \in sortedByDate(ts)}

\* const equityData = useMemo(...) when new Date() reads clock: the results
\* the evaluation can have, each with the points it returns and the array
\* trades as it leaves it.
equityDataMemo(ts, account, clock) ==
    IF account = <<>> \/ Len(ts) = 0
    THEN {[points |-> <<[date |-> clock, value |-> 0]>>, trades |-> ts]}
    ELSE {[points |-> <<[date |-> sorted[1].date, value |-> 0]>> \o
                      [i \in DOMAIN sorted |->
                          [date |-> sorted[i].date, value |-> cumulativePnL(sorted, account, i)]],
           trades |-> ts] : sorted \in sortedByDate(ts)}

----------------------------------------------------------------------------
(* The trade table's order of rows: TradingTable.sortedTrades *)

\* The sign of y - x for two getTime() values, 0 where it is NaN.
Descending(x, y) ==
    IF ~isValid(x) \/ ~isValid(y) THEN 0
    ELSE IF y < x THEN -1
    ELSE IF y > x THEN 1
    ELSE 0

\* Mutant of tableCompare: the rows are compared by date alone.
tableCompare_byDateAlone(a, b) == Descending(a.date, b.date)

\* The comparator of sortedTrades as Array.prototype.sort reads it:
\* updated_at descending, then created_at descending, then date descending
\* (x !== y holds for two NaN as well).
tableCompare(a, b) ==
    IF ~isValid(a.updated_at) \/ ~isValid(b.updated_at) \/ a.updated_at # b.updated_at
    THEN Descending(a.updated_at, b.updated_at)
    ELSE IF ~isValid(a.created_at) \/ ~isValid(b.created_at) \/ a.created_at # b.created_at
    THEN Descending(a.created_at, b.created_at)
    ELSE Descending(a.date, b.date)

\* The stable sort by tableCompare.
RECURSIVE sortForTable(_)
sortForTable(ts) ==
    IF ts = <<>> THEN <<>>
    ELSE LET front == sortForTable(SubSeq(ts, 1, Len(ts) - 1))
             last == ts[Len(ts)]
             k == Cardinality({i \in DOMAIN front : tableCompare(front[i], last) <= 0})
         IN  SubSeq(front, 1, k) \o <<last>> \o SubSeq(front, k + 1, Len(front))

\* tableCompare is a consistent comparator for the elements of ts.
tableCompareIsConsistent(ts) ==
    \A i, j, k \in DOMAIN ts :
        /\ (tableCompare(ts[i], ts[j]) = 0 /\ tableCompare(ts[j], ts[k]) = 0)
              => tableCompare(ts[i], ts[k]) = 0
        /\ (tableCompare(ts[i], ts[j]) < 0 /\ tableCompare(ts[j], ts[k]) < 0)
              => tableCompare(ts[i], ts[k]) < 0

\* const sortedTrades = [...trades].sort(...) in TradingTable, given the prop
\* trades: the arrays the sort of the copy can return (the prop keeps its order).
TradingTable_sortedTrades(ts) ==
    IF tableCompareIsConsistent(ts) THEN {sortForTable(ts)} ELSE Arrangements(ts)

----------------------------------------------------------------------------
(* Specification Spec: one trade of the backend, fetched into the          *)
(* dashboard, shown as a row of the trade table, deleted from there or     *)
(* opened on the trade review page, which fetches it again.  Every         *)
(* component has its own instance of useAccounts, and every call on the    *)
(* backend is answered in a later turn of the event loop.                  *)

\* now = Friday 2024-03-15, 14:00.
FridayAfternoon == NewDate(2024, 2, 15, 14)

\* The readings of new Date(): Monday 2024-01-01 08:00 and Friday 2024-03-15 14:00.
Clock == {NewDate(2024, 0, 1, 8), FridayAfternoon}

\* What new Date() can read after it has read t: time does not run backwards.
LaterReadings(t) == {clock \in Clock : clock >= t}

\* formatTradeDateTime(trade) throws: format and formatDistanceToNow of
\* date-fns throw RangeError: Invalid time value for an Invalid Date, and
\* the function formats the trade's date, created_at and updated_at.
formatTradeDateTimeThrows(t) ==
    ~isValid(t.date) \/ ~isValid(t.created_at) \/ ~isValid(t.updated_at)

\* What a render of the dashboard over the filtered trades leaves of the
\* statistics s it computed: TradingTable maps every row of its prop trades
\* through formatTradeDateTime, and an error thrown there, like one thrown
\* by filteredStats, unmounts the tree.
rendered(s, filtered) ==
    IF s = RangeError \/ \E i \in DOMAIN filtered : formatTradeDateTimeThrows(filtered[i])
    THEN RangeError
    ELSE s

\* The routes of the application that are followed.
Dashboard == "/"

Review == "/review/:tradeId"

\* The P&L column of TradingTable: calculateTradePnL of each row.
rowPnLs(rows, account) == [i \in DOMAIN rows |-> calculateTradePnL(rows[i], account)]

\* The dashboard after it is mounted at a reading of new Date() among
\* clocks: filter 'all', no trades loaded yet, no row in the table.
DashboardMounted(clocks) ==
    /\ now \in clocks
    /\ activeFilter = "all"
    /\ trades = <<>>
    /\ filteredTrades = <<>>
    /\ stats = ZeroStats
    /\ equityData = <<[date |-> now, value |-> 0]>>
    /\ sortedTrades = <<>>
    /\ tradePnL = <<>>
    /\ editingTrade = <<>>

\* useAccounts is not followed: no backend row, no instance, no call.
AccountsNotFollowed ==
    /\ accountsTable = <<>>
    /\ instances = <<>>
    /\ inFlight = EmptyBag
    /\ inserted = 0
    /\ failures = 0
    /\ events = 0
    /\ invocations = 0

\* The route is the dashboard's: no review page is mounted, its state is
\* what a mount starts from (trade null, loading true, no accounts yet).
NothingReviewed ==
    /\ route = Dashboard
    /\ reviewActiveAccount = <<>>
    /\ trade = <<>>
    /\ loading = TRUE
    /\ pnl = null
    /\ riskMetrics = <<>>

\* The rows of the table trades are not followed: none, and no call on them.
TradesNotFollowed ==
    /\ tradesTable = <<>>
    /\ awaiting = {}
    /\ updateData = <<>>
    /\ updates = 0

\* The calls on the backend's table trades that can be awaiting an answer.
FetchTrades == "useTrades: fetchTrades"

DeleteTrade == "useTradeActions: deleteTrade"

DeleteTradeUnmounted == "useTradeActions: deleteTrade, the table since unmounted"

FetchTrade == "TradeReview: fetchTrade, select single"

StrategyCount == "TradeReview: fetchTrade, select count"

\* The dashboard is mounted: useTrades and the instances of useAccounts
\* start empty and fetch; the backend holds the trade or not.
Init ==
    /\ activeAccount = <<>>
    /\ tableActiveAccount = <<>>
    /\ NothingReviewed
    /\ DashboardMounted({FridayAfternoon})
    /\ AccountsNotFollowed
    /\ tradesTable \in {<<>>} \cup {<<t>> : t \in JournalTrades}
    /\ awaiting = {FetchTrades}
    /\ updateData = <<>>
    /\ updates = 0

\* TradingTable's state editingTrade after a render whose statistics are s:
\* kept, or gone with the tree React unmounts.
StillEditing(s, editing) == IF s = RangeError THEN <<>> ELSE editing

\* TradingDashboard's getActiveAccount() returns a (an account or none) and
\* TradingTable's returns b: the dashboard renders again.  filteredTrades
\* keeps its value (neither trades nor activeFilter changed), and so do the
\* rows of the table; filteredStats and equityData are evaluated again, and
\* the table computes the P&L of its rows.  Where filteredStats throws, the
\* render stops there and React unmounts the dashboard: no chart and no
\* table are left, and nothing runs afterwards.  new Date() reads clock.
Rerender(a, b, clock) ==
    /\ activeAccount' = a
    /\ tableActiveAccount' = b
    /\ now' = clock
    /\ UNCHANGED <<activeFilter, filteredTrades>>
    /\ stats' = rendered(filteredStats(filteredTrades, activeAccount'), filteredTrades)
    /\ sortedTrades' = IF stats' = RangeError THEN <<>> ELSE sortedTrades
    /\ tradePnL' = rowPnLs(sortedTrades', tableActiveAccount')
    /\ editingTrade' = StillEditing(stats', editingTrade)
    /\ IF stats' = RangeError
       THEN /\ equityData' = <<>>
            /\ trades' = trades
       ELSE \E build \in equityDataMemo(trades, activeAccount', clock) :
               /\ equityData' = build.points
               /\ trades' = build.trades

\* TradingDashboard's instance of useAccounts delivers another active account.
AccountsChanged ==
    /\ route = Dashboard
    /\ stats # RangeError
    /\ \E a \in {<<>>} \cup {<<x>> : x \in Accounts}, clock \in LaterReadings(now) :
          /\ a # activeAccount
          /\ Rerender(a, tableActiveAccount, clock)
    /\ UNCHANGED reviewVars
    /\ UNCHANGED accountsVars

\* TradingTable's instance of useAccounts delivers another active account:
\* the table renders again, const tradePnL = calculateTradePnL(trade) of each row.
TableAccountsChanged ==
    /\ route = Dashboard
    /\ stats # RangeError
    /\ \E a \in {<<>>} \cup {<<x>> : x \in RowAccounts} :
          /\ a # tableActiveAccount
          /\ tableActiveAccount' = a
    /\ UNCHANGED <<activeAccount, trades, now, activeFilter, filteredTrades, stats, equityData,
                   sortedTrades, editingTrade>>
    /\ tradePnL' = rowPnLs(sortedTrades', tableActiveAccount')
    /\ UNCHANGED reviewVars
    /\ UNCHANGED accountsVars

\* What TradeReview renders in the state of trade, loading and
\* activeAccount given: the spinner while loading, "Trade not found" without
\* a trade, else const pnl = calculatePnL(trade) and calculateRiskMetrics(trade).
reviewPnl(tr, isLoading, account) ==
    IF isLoading \/ tr = <<>> THEN null ELSE calculatePnL(tr[1], account)

reviewRiskMetrics(tr, isLoading, account) ==
    IF isLoading \/ tr = <<>> THEN <<>> ELSE calculateRiskMetrics(tr[1], account)

\* TradeReview's instance of useAccounts delivers another active account:
\* the page renders again.
ReviewAccountsChanged ==
    /\ route = Review
    /\ \E a \in {<<>>} \cup {<<x>> : x \in RowAccounts} :
          /\ a # reviewActiveAccount
          /\ reviewActiveAccount' = a
    /\ UNCHANGED <<route, tradesTable, awaiting, updateData, updates, trade, loading>>
    /\ pnl' = reviewPnl(trade', loading', reviewActiveAccount')
    /\ riskMetrics' = reviewRiskMetrics(trade', loading', reviewActiveAccount')
    /\ UNCHANGED activeAccount
    /\ UNCHANGED dashboardVars
    /\ UNCHANGED accountsVars

\* TradingDashboard is mounted (again): the state of useTrades, of the
\* dashboard, of the table and of their instances of useAccounts is what
\* their hooks start with, and useTrades fetches.  The same values stand for
\* the dashboard while it is not mounted.
DashboardStartsOver ==
    /\ activeAccount' = <<>>
    /\ tableActiveAccount' = <<>>
    /\ now' = now
    /\ activeFilter' = "all"
    /\ trades' = <<>>
    /\ filteredTrades' = <<>>
    /\ stats' = ZeroStats
    /\ equityData' = <<[date |-> now, value |-> 0]>>
    /\ sortedTrades' = <<>>
    /\ tradePnL' = <<>>
    /\ editingTrade' = <<>>

\* TradeReview is unmounted: its state is what the next mount starts from.
ReviewStartsOver ==
    /\ reviewActiveAccount' = <<>>
    /\ trade' = <<>>
    /\ loading' = TRUE
    /\ pnl' = null
    /\ riskMetrics' = <<>>

\* A deleteTrade that is awaited when its table is unmounted goes on, and
\* its onTradeUpdated refetches for a dashboard that is no longer there.
Orphaned(calls) ==
    IF calls \cap {DeleteTrade, DeleteTradeUnmounted} # {} THEN {DeleteTradeUnmounted} ELSE {}

\* useTrades delivers the array newTrades (setTrades) while new Date() reads
\* clock: the dashboard renders and evaluates filteredTrades, filteredStats
\* and equityData again, and TradingTable sorts the filtered trades into
\* its rows and computes the P&L of each.  Where filteredStats throws, or
\* formatTradeDateTime for a row of the table, React unmounts the dashboard.
setTrades(newTrades, clock) ==
    /\ stats # RangeError
    /\ now' = clock
    /\ filteredTrades' = filterTrades(newTrades, activeFilter, clock)
    /\ stats' = rendered(filteredStats(filteredTrades', activeAccount), filteredTrades')
    /\ IF stats' = RangeError
       THEN /\ equityData' = <<>>
            /\ trades' = newTrades
            /\ sortedTrades' = <<>>
       ELSE /\ \E build \in equityDataMemo(newTrades, activeAccount, clock) :
                  /\ equityData' = build.points
                  /\ trades' = build.trades
            /\ sortedTrades' \in TradingTable_sortedTrades(filteredTrades')
    /\ UNCHANGED <<activeAccount, tableActiveAccount, activeFilter>>
    /\ tradePnL' = rowPnLs(sortedTrades', tableActiveAccount')
    /\ editingTrade' = StillEditing(stats', editingTrade)

\* useTrades delivers newTrades to the dashboard, the rest as it was.
TradesChanged(newTrades, clock) ==
    /\ setTrades(newTrades, clock)
    /\ UNCHANGED reviewVars
    /\ UNCHANGED accountsVars

\* The answer to useTrades' fetch arrives with the rows the backend holds.
TradesDelivered ==
    /\ route = Dashboard
    /\ FetchTrades \in awaiting
    /\ awaiting' = awaiting \ {FetchTrades}
    /\ \E clock \in LaterReadings(now) : setTrades(tradesTable, clock)
    /\ UNCHANGED <<reviewActiveAccount, route, tradesTable, updateData, updates, trade, loading, pnl,
                   riskMetrics>>
    /\ UNCHANGED accountsVars

\* handleDelete up to its await: deleteTrade(tradeId) is called for a row.
\* The row stays in the table.
handleDelete ==
    /\ route = Dashboard
    /\ sortedTrades # <<>>
    /\ DeleteTrade \notin awaiting
    /\ awaiting' = awaiting \cup {DeleteTrade}
    /\ UNCHANGED <<reviewActiveAccount, route, tradesTable, updateData, updates, trade, loading, pnl,
                   riskMetrics>>
    /\ UNCHANGED activeAccount
    /\ UNCHANGED dashboardVars
    /\ UNCHANGED accountsVars

\* deleteTrade resolves and handleDelete goes on: onTradeUpdated(), the
\* dashboard's refetchTrades.  The table keeps its rows until the refetch is
\* answered.  useTradeActions is outside the code followed: the promise
\* resolves with the row deleted from the backend, or with the row still
\* there (a failure deleteTrade reports itself).
deleteTradeResolved ==
    /\ \E call \in awaiting \cap {DeleteTrade, DeleteTradeUnmounted} :
          awaiting' = (awaiting \ {call}) \cup (IF call = DeleteTrade THEN {FetchTrades} ELSE {})
    /\ \E deleted \in BOOLEAN :
          tradesTable' = IF deleted THEN <<>> ELSE tradesTable
    /\ UNCHANGED <<reviewActiveAccount, route, updateData, updates, trade, loading, pnl, riskMetrics>>
    /\ UNCHANGED activeAccount
    /\ UNCHANGED dashboardVars
    /\ UNCHANGED accountsVars

\* deleteTrade rejects: handleDelete ends there, nothing is refetched and
\* the row stays.
deleteTradeRejected ==
    /\ \E call \in awaiting \cap {DeleteTrade, DeleteTradeUnmounted} :
          awaiting' = awaiting \ {call}
    /\ UNCHANGED <<reviewActiveAccount, route, tradesTable, updateData, updates, trade, loading, pnl,
                   riskMetrics>>
    /\ UNCHANGED activeAccount
    /\ UNCHANGED dashboardVars
    /\ UNCHANGED accountsVars

\* The R:R the user types into the form's field in place of the row's.
EditedRRs == {30}

\* The form EditTradeModal's effect fills from the row it edits: date is
\* new Date(trade.date).toISOString().split('T')[0], rr is
\* trade.rr?.toString() || '' (null stands for the empty string, and '0'
\* is kept) and risk_percentage is trade.risk_percentage?.toString() || '1.0',
\* where '0' is kept.
formData(t) ==
    [date |-> toISODate(t.date),
     rr |-> t.rr,
     risk_percentage |-> IF t.risk_percentage = null THEN 10 ELSE t.risk_percentage]

\* The forms that are submitted for the row t: the one the effect filled,
\* with the row's R:R kept, and the one with another R:R typed in.
submittedForms(t) ==
    {formData(t)} \cup {[formData(t) EXCEPT !.rr = rr] : rr \in EditedRRs}

\* handleSubmit's checks of the form: parseFloat(formData.risk_percentage)
\* is above 0 and not above 100, and if (formData.rr) the R:R is above 0
\* (an empty field passes, '0' is a non-empty string and does not).
formIsValid(form) ==
    /\ form.risk_percentage > 0
    /\ form.risk_percentage <= 1000
    /\ form.rr = null \/ form.rr > 0

\* The rows the backend holds after the update sent for form reaches row:
\* date: new Date(formData.date).toISOString(), midnight UTC of the day,
\* and rr: formData.rr ? Number(formData.rr) : ..., where the source ends.
\* What is sent for an empty R:R field and whether the validated
\* riskPercentage is sent lie past that point: null or nothing (the column
\* keeps its value) for the one, the form's or nothing for the other.
updatedRows(row, form) ==
    {[row EXCEPT !.date = NewDateOfISODate(form.date), !.rr = rr, !.risk_percentage = rp] :
        rr \in (IF form.rr = null THEN {null, row.rr} ELSE {form.rr}),
        rp \in {row.risk_percentage, form.risk_percentage}}

\* The number of updates the user submits.
MaxUpdates == 1

\* An update is on its way to the backend, or its answer on the way back.
Sent == "sent"

Answered == "answered"

\* handleEdit(trade): the Edit button of a row of the table is clicked,
\* setEditingTrade(trade).  The modal opens on the row and its effect fills
\* the form from it; the state keeps the row when the table's rows change.
handleEdit ==
    /\ route = Dashboard
    /\ \E i \in DOMAIN sortedTrades : editingTrade' = <<sortedTrades[i]>>
    /\ UNCHANGED <<trades, now, activeFilter, filteredTrades, stats, equityData, sortedTrades,
                   tableActiveAccount, tradePnL>>
    /\ UNCHANGED activeAccount
    /\ UNCHANGED reviewVars
    /\ UNCHANGED accountsVars

\* onClose: the modal is closed, setEditingTrade(null).
onClose ==
    /\ route = Dashboard
    /\ editingTrade # <<>>
    /\ editingTrade' = <<>>
    /\ UNCHANGED <<trades, now, activeFilter, filteredTrades, stats, equityData, sortedTrades,
                   tableActiveAccount, tradePnL>>
    /\ UNCHANGED activeAccount
    /\ UNCHANGED reviewVars
    /\ UNCHANGED accountsVars

\* EditTradeModal.handleSubmit up to its await, for the row the modal was
\* opened on (its prop trade, the table's editingTrade), whether or not the
\* table still shows the row, with the required fields filled in and while
\* the modal's own useAccounts has an active account: the form passes the
\* checks (a form that does not ends handleSubmit with a toast, before any
\* update), setLoading(true), and the update of the row is sent, beside
\* the updates that are awaited already.
EditTradeModal_handleSubmit ==
    /\ route = Dashboard
    /\ editingTrade # <<>>
    /\ updates < MaxUpdates
    /\ updates' = updates + 1
    /\ isValid(editingTrade[1].date)
    /\ \E form \in submittedForms(editingTrade[1]) :
          /\ formIsValid(form)
          /\ updateData' = Append(updateData, [form |-> form, answer |-> Sent, mounted |-> TRUE])
    /\ UNCHANGED <<reviewActiveAccount, route, tradesTable, awaiting, trade, loading, pnl,
                   riskMetrics>>
    /\ UNCHANGED activeAccount
    /\ UNCHANGED dashboardVars
    /\ UNCHANGED accountsVars

\* One of the updates reaches the backend: it writes the row, if it still
\* holds it, or fails and leaves the row as it was.  The answer is on its way.
updateWritten ==
    /\ \E i \in DOMAIN updateData :
          /\ updateData[i].answer = Sent
          /\ updateData' = [updateData EXCEPT ![i].answer = Answered]
          /\ \E ok \in BOOLEAN :
                IF ok /\ tradesTable # <<>>
                THEN \E row \in updatedRows(tradesTable[1], updateData[i].form) :
                        tradesTable' = <<row>>
                ELSE tradesTable' = tradesTable
    /\ UNCHANGED <<reviewActiveAccount, route, awaiting, updates, trade, loading, pnl,
                   riskMetrics>>
    /\ UNCHANGED activeAccount
    /\ UNCHANGED dashboardVars
    /\ UNCHANGED accountsVars

\* The sequence seq without its i-th element.
Without(seq, i) == SubSeq(seq, 1, i - 1) \o SubSeq(seq, i + 1, Len(seq))

\* The answer of an update arrives, done or an error, and handleSubmit goes
\* on.  What it does then lies past the end of the source: onTradeUpdated()
\* refetches for the dashboard that mounted the modal and onClose() closes
\* the modal, if they are called and the dashboard is still mounted, or the
\* table keeps its rows until something else refetches and the modal stays
\* open.
updateAnswered ==
    /\ \E i \in DOMAIN updateData :
          /\ updateData[i].answer = Answered
          /\ updateData' = Without(updateData, i)
          /\ \E refetched, closed \in BOOLEAN :
                /\ awaiting' = awaiting \cup (IF refetched /\ updateData[i].mounted
                                              THEN {FetchTrades} ELSE {})
                /\ editingTrade' = IF closed /\ updateData[i].mounted THEN <<>> ELSE editingTrade
    /\ UNCHANGED <<trades, now, activeFilter, filteredTrades, stats, equityData, sortedTrades,
                   tableActiveAccount, tradePnL>>
    /\ UNCHANGED <<reviewActiveAccount, route, tradesTable, updates, trade, loading, pnl,
                   riskMetrics>>
    /\ UNCHANGED activeAccount
    /\ UNCHANGED accountsVars

\* An update that is awaited when its modal is unmounted goes on, and its
\* onTradeUpdated refetches for a dashboard that is no longer there.
Unmounted(update) == [i \in DOMAIN update |-> [update[i] EXCEPT !.mounted = FALSE]]

\* handleViewDetails: navigate(`/review/${tradeId}`).  The dashboard and its
\* table are unmounted; TradeReview is mounted with trade null and loading
\* true and renders the spinner, and its effect calls fetchTrade.
handleViewDetails ==
    /\ route = Dashboard
    /\ sortedTrades # <<>>
    /\ route' = Review
    /\ DashboardStartsOver
    /\ awaiting' = Orphaned(awaiting) \cup {FetchTrade}
    /\ updateData' = Unmounted(updateData)
    /\ UNCHANGED updates
    /\ UNCHANGED <<reviewActiveAccount, tradesTable, trade, loading, pnl, riskMetrics>>
    /\ UNCHANGED accountsVars

\* fetchTrade's select of the row is answered with the row the backend
\* holds: setTrade(tradeData).  A row with a strategy_tag has its strategy
\* counted next, the page loading on; for a row without one fetchTrade ends,
\* setLoading(false), and the page renders the trade.
fetchTradeSucceeded ==
    /\ FetchTrade \in awaiting
    /\ tradesTable # <<>>
    /\ trade' = tradesTable
    /\ \E strategy_tag \in BOOLEAN :
          IF strategy_tag
          THEN /\ awaiting' = (awaiting \ {FetchTrade}) \cup {StrategyCount}
               /\ loading' = TRUE
          ELSE /\ awaiting' = awaiting \ {FetchTrade}
               /\ loading' = FALSE
    /\ UNCHANGED <<reviewActiveAccount, route, tradesTable, updateData, updates>>
    /\ pnl' = reviewPnl(trade', loading', reviewActiveAccount')
    /\ riskMetrics' = reviewRiskMetrics(trade', loading', reviewActiveAccount')
    /\ UNCHANGED activeAccount
    /\ UNCHANGED dashboardVars
    /\ UNCHANGED accountsVars

\* The select that counts the strategy's trades is answered, with a count or
\* an error: fetchTrade ends, setLoading(false), and the page renders the trade.
strategyCountAnswered ==
    /\ StrategyCount \in awaiting
    /\ awaiting' = awaiting \ {StrategyCount}
    /\ loading' = FALSE
    /\ UNCHANGED <<reviewActiveAccount, route, tradesTable, updateData, updates, trade>>
    /\ pnl' = reviewPnl(trade', loading', reviewActiveAccount')
    /\ riskMetrics' = reviewRiskMetrics(trade', loading', reviewActiveAccount')
    /\ UNCHANGED activeAccount
    /\ UNCHANGED dashboardVars
    /\ UNCHANGED accountsVars

\* fetchTrade's select of the row is answered with an error (single() finds
\* no row, or the request fails): the toast "Failed to load trade details"
\* and navigate('/').  TradeReview is unmounted without having evaluated
\* calculatePnL, and the dashboard is mounted again.
fetchTradeFailed ==
    /\ FetchTrade \in awaiting
    /\ route' = Dashboard
    /\ ReviewStartsOver
    /\ awaiting' = (awaiting \ {FetchTrade}) \cup {FetchTrades}
    /\ UNCHANGED <<tradesTable, updateData, updates>>
    /\ UNCHANGED activeAccount
    /\ UNCHANGED dashboardVars
    /\ UNCHANGED accountsVars

\* "Back to Dashboard" on the rendered page: navigate('/') unmounts the
\* review page and mounts the dashboard again.
BackToDashboard ==
    /\ route = Review
    /\ ~loading
    /\ route' = Dashboard
    /\ ReviewStartsOver
    /\ awaiting' = awaiting \cup {FetchTrades}
    /\ UNCHANGED <<tradesTable, updateData, updates>>
    /\ UNCHANGED activeAccount
    /\ UNCHANGED dashboardVars
    /\ UNCHANGED accountsVars

Next ==
    \/ AccountsChanged
    \/ TableAccountsChanged
    \/ ReviewAccountsChanged
    \/ TradesDelivered
    \/ handleDelete
    \/ deleteTradeResolved
    \/ deleteTradeRejected
    \/ handleEdit
    \/ onClose
    \/ EditTradeModal_handleSubmit
    \/ updateWritten
    \/ updateAnswered
    \/ handleViewDetails
    \/ fetchTradeSucceeded
    \/ strategyCountAnswered
    \/ fetchTradeFailed
    \/ BackToDashboard

Spec == Init /\ [][Next]_vars

----------------------------------------------------------------------------
(* Specification SpecCalculator: the calculators of the table and of the   *)
(* review page applied to every trade under every account.  The backend    *)
(* holds one of Trades; the dashboard loads it into its table, the user    *)
(* opens its review page, and the table's and the page's instances of      *)
(* useAccounts deliver their accounts.                                     *)

InitCalculator ==
    /\ activeAccount = <<>>
    /\ tableActiveAccount = <<>>
    /\ NothingReviewed
    /\ DashboardMounted({FridayAfternoon})
    /\ AccountsNotFollowed
    /\ tradesTable \in {<<t>> : t \in Trades}
    /\ awaiting = {FetchTrades}
    /\ updateData = <<>>
    /\ updates = 0

NextCalculator ==
    \/ TradesDelivered
    \/ TableAccountsChanged
    \/ handleViewDetails
    \/ fetchTradeSucceeded
    \/ strategyCountAnswered
    \/ ReviewAccountsChanged

SpecCalculator == InitCalculator /\ [][NextCalculator]_vars

----------------------------------------------------------------------------
(* Specification SpecStats: the dashboard over a list of trades, under the *)
(* initial time filter 'all'.                                              *)

\* The longest trade list of the model.
MaxTrades == 3

\* The two trading days of the statistics: Thursday 2024-03-14 and Friday 2024-03-15.
DayA(hours) == NewDate(2024, 2, 14, hours)

DayB(hours) == NewDate(2024, 2, 15, hours)

\* The trades the dashboard is fed.
StatsTrades ==
    { [pnl_dollar |-> null, risk_percentage |-> 10, rr |-> 20,
       result |-> <<"W","i","n">>, date |-> DayA(9),
       created_at |-> DayB(10), updated_at |-> DayB(10)],
      [pnl_dollar |-> null, risk_percentage |-> 10, rr |-> null,
       result |-> <<"L","o","s","s">>, date |-> DayA(16),
       created_at |-> DayB(10), updated_at |-> DayB(10)],
      [pnl_dollar |-> null, risk_percentage |-> 5, rr |-> null,
       result |-> <<"W","I","N">>, date |-> DayB(0),
       created_at |-> DayB(10), updated_at |-> DayB(10)],
      [pnl_dollar |-> 0, risk_percentage |-> 10, rr |-> 17,
       result |-> <<"W","i","n">>, date |-> DayB(0),
       created_at |-> DayB(10), updated_at |-> DayB(10)],
      [pnl_dollar |-> -375000, risk_percentage |-> 10, rr |-> 20,
       result |-> <<"w","i","n">>, date |-> DayB(0),
       created_at |-> DayB(10), updated_at |-> DayB(10)],
      [pnl_dollar |-> 0, risk_percentage |-> 10, rr |-> null,
       result |-> <<"L","O","S","S">>, date |-> DayA(23),
       created_at |-> DayB(10), updated_at |-> DayB(10)],
      [pnl_dollar |-> -375000, risk_percentage |-> null, rr |-> 13,
       result |-> <<"L","o","s","s">>, date |-> DayB(0),
       created_at |-> DayB(10), updated_at |-> DayB(10)],
      [pnl_dollar |-> null, risk_percentage |-> 10, rr |-> 20,
       result |-> <<"B","r","e","a","k","e","v","e","n">>, date |-> DayB(0),
       created_at |-> DayB(10), updated_at |-> DayB(10)],
      [pnl_dollar |-> 1000000, risk_percentage |-> 10, rr |-> null,
       result |-> <<"B","r","e","a","k","e","v","e","n">>, date |-> DayA(9),
       created_at |-> DayB(10), updated_at |-> DayB(10)],
      [pnl_dollar |-> null, risk_percentage |-> 10, rr |-> 20,
       result |-> <<"B","E">>, date |-> DayA(9),
       created_at |-> DayB(10), updated_at |-> DayB(10)] }

InitStats ==
    /\ activeAccount \in {<<>>} \cup {<<a>> : a \in Accounts}
    /\ tableActiveAccount = <<>>
    /\ NothingReviewed
    /\ TradesNotFollowed
    /\ DashboardMounted({FridayAfternoon})
    /\ AccountsNotFollowed

\* A trade is logged (NewTradeModal, then refetchTrades); the refetched list
\* holds it at the place its date gives it.
TradeAdded ==
    /\ Len(trades) < MaxTrades
    /\ \E t \in StatsTrades, i \in 0..Len(trades), clock \in LaterReadings(now) :
          TradesChanged(SubSeq(trades, 1, i) \o <<t>> \o SubSeq(trades, i + 1, Len(trades)), clock)

\* A trade is deleted from the table (deleteTrade, then refetchTrades).
TradeRemoved ==
    \E i \in 1..Len(trades), clock \in LaterReadings(now) :
        TradesChanged(SubSeq(trades, 1, i - 1) \o SubSeq(trades, i + 1, Len(trades)), clock)

NextStats == AccountsChanged \/ TradeAdded \/ TradeRemoved

SpecStats == InitStats /\ [][NextStats]_vars

----------------------------------------------------------------------------
(* Specification SpecFilter: the dashboard over dated trades, under every  *)
(* time filter and at several readings of the clock.                       *)

\* The longest trade list of this specification.
MaxDatedTrades == 2

\* A closed trade with its P&L entered in dollars, logged on 2024-03-15.
DatedTrade(date, pnlDollar) ==
    [pnl_dollar |-> pnlDollar, risk_percentage |-> 10, rr |-> 20,
     result |-> IF pnlDollar > 0 THEN <<"W","i","n">> ELSE <<"L","o","s","s">>,
     date |-> date, created_at |-> NewDate(2024, 2, 15, 10), updated_at |-> NewDate(2024, 2, 15, 10)]

\* The trades the dashboard is fed: dates on both sides of every boundary
\* of the filters at the readings of Clock.
DatedTrades ==
    { DatedTrade(NewDate(2023, 11, 14, 23), 1000000),
      DatedTrade(NewDate(2023, 11, 15, 8), -500000),
      DatedTrade(NewDate(2023, 11, 31, 23), 1000000),
      DatedTrade(NewDate(2024, 1, 29, 23), -500000),
      DatedTrade(NewDate(2024, 2, 9, 23), 1000000),
      DatedTrade(NewDate(2024, 2, 11, 9), -500000),
      DatedTrade(NewDate(2024, 2, 15, 20), 1000000),
      DatedTrade(NewDate(2024, 2, 17, 0), -500000),
      DatedTrade(NewDate(2025, 0, 1, 0), 1000000) }

InitFilter ==
    /\ activeAccount \in {<<>>, <<[starting_balance |-> 10000]>>}
    /\ tableActiveAccount = <<>>
    /\ NothingReviewed
    /\ TradesNotFollowed
    /\ DashboardMounted(Clock)
    /\ AccountsNotFollowed

\* A dated trade is logged (NewTradeModal, then refetchTrades).
DatedTradeAdded ==
    /\ Len(trades) < MaxDatedTrades
    /\ \E t \in DatedTrades, i \in 0..Len(trades), clock \in LaterReadings(now) :
          TradesChanged(SubSeq(trades, 1, i) \o <<t>> \o SubSeq(trades, i + 1, Len(trades)), clock)

\* refetchTrades (onTradeUpdated after an edit that changes nothing): the
\* same trades arrive as a new array, at the same or a later reading of the clock.
refetchTrades ==
    \E clock \in LaterReadings(now) : TradesChanged(trades, clock)

\* A TimeFilter button is pressed: setActiveFilter.  filteredTrades, which
\* reads new Date(), and filteredStats are evaluated again and TradingTable
\* sorts the filtered trades and renders its rows.  The dependencies of
\* equityData are [trades, activeAccount, calculatePnL]: the first two did
\* not change, and whether useTrades hands out the same calculatePnL on
\* every render is not in the source, so the memo keeps its value or is
\* evaluated again at this reading of the clock.
setActiveFilter ==
    /\ stats # RangeError
    /\ \E filter \in Filters, clock \in LaterReadings(now) :
          /\ filter # activeFilter
          /\ activeFilter' = filter
          /\ now' = clock
    /\ filteredTrades' = filterTrades(trades, activeFilter', now')
    /\ stats' = rendered(filteredStats(filteredTrades', activeAccount), filteredTrades')
    /\ UNCHANGED <<activeAccount, tableActiveAccount, trades>>
    /\ IF stats' = RangeError
       THEN /\ equityData' = <<>>
            /\ sortedTrades' = <<>>
       ELSE /\ \/ equityData' = equityData
               \/ \E build \in equityDataMemo(trades, activeAccount, now') :
                     equityData' = build.points
            /\ sortedTrades' \in TradingTable_sortedTrades(filteredTrades')
    /\ tradePnL' = rowPnLs(sortedTrades', tableActiveAccount')
    /\ editingTrade' = StillEditing(stats', editingTrade)
    /\ UNCHANGED reviewVars
    /\ UNCHANGED accountsVars

NextFilter == setActiveFilter \/ DatedTradeAdded \/ TradeRemoved \/ refetchTrades

SpecFilter == InitFilter /\ [][NextFilter]_vars

----------------------------------------------------------------------------
(* Specification SpecInvalidDate: the dashboard over trades one of which   *)
(* carries a date string that new Date() cannot parse.                     *)

\* The longest trade list of this specification.
MaxBadlyDatedTrades == 3

\* A win of Thursday, a loss of Friday, and a win whose date is no date.
BadlyDatedTrades ==
    { DatedTrade(DayA(9), 1000000),
      DatedTrade(DayB(0), -500000),
      DatedTrade(InvalidDate, 1000000) }

InitInvalidDate ==
    /\ activeAccount \in {<<>>, <<[starting_balance |-> 10000]>>}
    /\ tableActiveAccount = <<>>
    /\ NothingReviewed
    /\ TradesNotFollowed
    /\ DashboardMounted({FridayAfternoon})
    /\ AccountsNotFollowed

\* useTrades delivers a list with one more of these trades.
BadlyDatedTradeAdded ==
    /\ Len(trades) < MaxBadlyDatedTrades
    /\ \E t \in BadlyDatedTrades, i \in 0..Len(trades), clock \in LaterReadings(now) :
          TradesChanged(SubSeq(trades, 1, i) \o <<t>> \o SubSeq(trades, i + 1, Len(trades)), clock)

NextInvalidDate == setActiveFilter \/ BadlyDatedTradeAdded \/ TradeRemoved

SpecInvalidDate == InitInvalidDate /\ [][NextInvalidDate]_vars

----------------------------------------------------------------------------
(* Specification SpecTable: the dashboard's trade table over trades that   *)
(* were logged and edited at different times.                              *)

\* The longest trade list of this specification.
MaxTableTrades == 3

\* A win of $100 with its three timestamps.
TimedTrade(date, createdAt, updatedAt, pnlDollar) ==
    [DatedTrade(date, pnlDollar) EXCEPT !.created_at = createdAt, !.updated_at = updatedAt]

\* Trades that differ in the first, the second or the third key of the
\* table's order, and two that agree in all three.
TableTrades ==
    { TimedTrade(DayA(9), DayB(10), DayB(10), 1000000),
      TimedTrade(DayA(9), DayB(10), DayB(10), -500000),
      TimedTrade(DayB(0), DayB(10), DayB(10), 1000000),
      TimedTrade(DayB(0), DayA(10), DayB(10), 1000000),
      TimedTrade(DayA(9), DayA(10), DayB(12), 1000000) }

InitTable ==
    /\ activeAccount \in {<<>>, <<[starting_balance |-> 10000]>>}
    /\ tableActiveAccount = <<>>
    /\ NothingReviewed
    /\ TradesNotFollowed
    /\ DashboardMounted({FridayAfternoon})
    /\ AccountsNotFollowed

\* useTrades delivers a list with one more of these trades.
TableTradeAdded ==
    /\ Len(trades) < MaxTableTrades
    /\ \E t \in TableTrades, i \in 0..Len(trades), clock \in LaterReadings(now) :
          TradesChanged(SubSeq(trades, 1, i) \o <<t>> \o SubSeq(trades, i + 1, Len(trades)), clock)

NextTable == TableTradeAdded \/ TradeRemoved

SpecTable == InitTable /\ [][NextTable]_vars

----------------------------------------------------------------------------
(* useAccounts: the accounts table of the backend, the instances of the    *)
(* hook that are mounted together, and their asynchronous calls.  The user *)
(* is signed in throughout.  Every call of an operation sends its own      *)
(* requests, and every one of them is in flight until its answer is        *)
(* handled; a request acts on the table in the step that handles its       *)
(* answer (a select is answered with the rows the table holds then), and   *)
(* the postgres_changes events of a write reach the channels of the        *)
(* instances afterwards, each in a step of its own.                        *)

\* The components that the dashboard page mounts together and that call
\* useAccounts(): TradingDashboard renders TradingTable, which renders
\* EditTradeModal.  AppSidebar calls useAccounts() too and refetches on the
\* window event activeAccountChanged; where it is mounted is not in the
\* source, and the page is followed without it.
Hooks == {"TradingDashboard", "TradingTable", "EditTradeModal"}

\* What the backend and the user do is followed up to these bounds: the
\* rows the backend accepts (it answers a further insert with an error),
\* the other requests it answers with an error, the postgres_changes events
\* its realtime service sends (a write beyond them sends none) and the
\* operations the user invokes, each while no more than MaxBusy requests
\* and events are under way.  Every request an instance has sent is
\* answered, and every event sent is delivered.
MaxAccounts == 3

MaxFailures == 1

MaxEvents == 3

MaxInvocations == 2

MaxBusy == 0

\* A row of the table accounts.
AccountRow(id, name, startingBalance, isActive) ==
    [id |-> id, name |-> name, starting_balance |-> startingBalance, is_active |-> isActive]

\* accounts.find(account => account.is_active) || accounts[0] || null
getActiveAccount(accounts) ==
    LET flagged == {i \in DOMAIN accounts : accounts[i].is_active}
    IN  IF flagged # {} THEN <<accounts[CHOOSE i \in flagged : \A j \in flagged : i <= j]>>
        ELSE IF Len(accounts) > 0 THEN <<accounts[1]>>
        ELSE <<>>

\* What the components read of the account getActiveAccount() returns.
AccountOf(found) ==
    IF found = <<>> THEN <<>> ELSE <<[starting_balance |-> found[1].starting_balance]>>

\* An asynchronous call of instance h that awaits the backend at the
\* request at, with the arguments it was called with.
Call(fn, h, at, name, startingBalance, id, isActive) ==
    [fn |-> fn, hook |-> h, at |-> at, name |-> name, starting_balance |-> startingBalance,
     id |-> id, is_active |-> isActive]

\* One fetchAccounts awaiting its select.
FetchCall(h) == Call("fetchAccounts", h, "select", "", 0, 0, FALSE)

\* One postgres_changes event on its way to the channel of instance h.
ChangeEvent(h) == Call("postgres_changes", h, "callback", "", 0, 0, FALSE)

\* The events a write that touched rows rows of the user sends: one for
\* each row to the channel of every instance.
ChangeEvents(rows) ==
    IF rows = 0 THEN EmptyBag ELSE [c \in {ChangeEvent(h) : h \in Hooks} |-> rows]

\* The events the realtime service sends for such a write after it has sent
\* sent events.
EventsSent(rows, sent) ==
    IF sent + rows * Cardinality(Hooks) <= MaxEvents THEN ChangeEvents(rows) ELSE EmptyBag

\* The rows of table with the id given.
RowsWithId(table, id) == Len(SelectSeq(table, LAMBDA row : row.id = id))

\* .update({ is_active: false }).eq('user_id', user.id)
deactivateAll(table) == [i \in DOMAIN table |-> [table[i] EXCEPT !.is_active = FALSE]]

\* .delete().eq('id', id)
deleteRow(table, id) == SelectSeq(table, LAMBDA row : row.id # id)

\* .update(updates).eq('id', id) with updates = { is_active: isActive }
updateRow(table, id, isActive) ==
    [i \in DOMAIN table |-> IF table[i].id = id THEN [table[i] EXCEPT !.is_active = isActive]
                            ELSE table[i]]

\* rpc('set_account_active'): the account becomes the user's only active one.
set_account_active(table, id) ==
    [i \in DOMAIN table |-> [table[i] EXCEPT !.is_active = (table[i].id = id)]]

\* fetchAccounts() begins on the instance h: setLoading(true).
Loading(hs, h) == [hs EXCEPT ![h].loading = TRUE]

\* The default-account effect of an instance that renders with accounts and
\* isLoading: createDefaultAccount() calls createAccount('Main Account', 10000, 2.0),
\* which first awaits the update that deactivates the user's accounts.
DefaultAccountEffect(h, accounts, isLoading) ==
    IF Len(accounts) = 0 /\ ~isLoading
    THEN SetToBag({Call("createAccount", h, "update", "Main Account", 10000, 0, FALSE)})
    ELSE EmptyBag

----------------------------------------------------------------------------
(* Specification SpecAccounts: the dashboard page of a user who has no     *)
(* account yet or one account, with no trades.                             *)

\* Every instance has rendered once (accounts [], loading true) and its
\* first effect has called fetchAccounts.
InitAccounts ==
    /\ accountsTable \in {<<>>, <<AccountRow(1, "Main Account", 10000, TRUE)>>}
    /\ instances = [h \in Hooks |-> [accounts |-> <<>>, loading |-> TRUE, error |-> FALSE]]
    /\ inFlight = SetToBag({FetchCall(h) : h \in Hooks})
    /\ inserted = Len(accountsTable)
    /\ failures = 0
    /\ events = 0
    /\ invocations = 0
    /\ activeAccount = <<>>
    /\ tableActiveAccount = <<>>
    /\ NothingReviewed
    /\ TradesNotFollowed
    /\ DashboardMounted({FridayAfternoon})

\* The state of the instances changes: the dashboard renders with what its
\* own instance's getActiveAccount() returns.
InstancesChange(newInstances) ==
    /\ instances' = newInstances
    /\ \E clock \in LaterReadings(now) :
          Rerender(AccountOf(getActiveAccount(newInstances["TradingDashboard"].accounts)),
                   AccountOf(getActiveAccount(newInstances["TradingTable"].accounts)), clock)
    /\ UNCHANGED reviewVars

\* No instance changes state: nothing renders.
NothingRenders ==
    /\ UNCHANGED instances
    /\ UNCHANGED <<activeAccount, reviewVars, dashboardVars>>

\* The requests and callbacks under way become calls, and with them the
\* events of a write that touched rows rows.
UnderWay(calls, rows) ==
    /\ inFlight' = calls (+) EventsSent(rows, events)
    /\ events' = events + BagCardinality(EventsSent(rows, events))

\* A backend request is answered with an error.
RequestFails ==
    /\ failures < MaxFailures
    /\ failures' = failures + 1

\* The select of one fetchAccounts of h is answered with the user's rows:
\* setAccounts(data), setError(null), setLoading(false); the effect runs.
fetchAccountsSucceeds(h) ==
    /\ BagIn(FetchCall(h), inFlight)
    /\ InstancesChange([instances EXCEPT ![h] =
           [accounts |-> accountsTable, loading |-> FALSE, error |-> FALSE]])
    /\ UnderWay((inFlight (-) SetToBag({FetchCall(h)}))
                    (+) DefaultAccountEffect(h, accountsTable, FALSE), 0)
    /\ UNCHANGED <<accountsTable, inserted, failures, invocations>>

\* The select is answered with an error: setError(message), setLoading(false);
\* accounts keeps its value, and the effect runs if loading changed.
fetchAccountsFails(h) ==
    /\ BagIn(FetchCall(h), inFlight)
    /\ RequestFails
    /\ InstancesChange([instances EXCEPT ![h].loading = FALSE, ![h].error = TRUE])
    /\ UnderWay((inFlight (-) SetToBag({FetchCall(h)}))
                    (+) (IF instances[h].loading
                         THEN DefaultAccountEffect(h, instances[h].accounts, FALSE)
                         ELSE EmptyBag), 0)
    /\ UNCHANGED <<accountsTable, inserted, invocations>>

\* A postgres_changes event reaches the channel of h: its callback calls
\* fetchAccounts(), setLoading(true), and the select is sent.
postgres_changes(h) ==
    /\ BagIn(ChangeEvent(h), inFlight)
    /\ InstancesChange(Loading(instances, h))
    /\ UnderWay((inFlight (-) SetToBag({ChangeEvent(h)})) (+) SetToBag({FetchCall(h)}), 0)
    /\ UNCHANGED <<accountsTable, inserted, failures, invocations>>

\* The user invokes an operation of the hook, on a page at rest.
Invoked ==
    /\ invocations < MaxInvocations
    /\ BagCardinality(inFlight) <= MaxBusy
    /\ invocations' = invocations + 1

\* An operation of the hook is invoked and runs up to its first await,
\* where call awaits the backend.
InvokedUpTo(call) ==
    /\ Invoked
    /\ UnderWay(inFlight (+) SetToBag({call}), 0)
    /\ UNCHANGED <<accountsTable, inserted, failures>>
    /\ NothingRenders

\* refetchAccounts() is invoked on h: it is fetchAccounts, setLoading(true),
\* and the select is sent.
refetchAccounts(h) ==
    /\ Invoked
    /\ InstancesChange(Loading(instances, h))
    /\ UnderWay(inFlight (+) SetToBag({FetchCall(h)}), 0)
    /\ UNCHANGED <<accountsTable, inserted, failures>>

\* createAccount(name, startingBalance) is invoked on h by the user: the
\* update that deactivates the user's accounts is sent.
createAccount(h) ==
    InvokedUpTo(Call("createAccount", h, "update", "Swing", 1234, 0, FALSE))

\* The first request of a createAccount is answered: every account of the
\* user is inactive, or, on an error (which createAccount does not look at),
\* nothing changed.  An event for each row is on its way to every channel,
\* and the insert is sent.
createAccountDeactivates(c, ok) ==
    /\ BagIn(c, inFlight)
    /\ c.fn = "createAccount" /\ c.at = "update"
    /\ IF ok THEN UNCHANGED failures ELSE RequestFails
    /\ accountsTable' = IF ok THEN deactivateAll(accountsTable) ELSE accountsTable
    /\ UnderWay((inFlight (-) SetToBag({c})) (+) SetToBag({[c EXCEPT !.at = "insert"]}),
                IF ok THEN Len(accountsTable) ELSE 0)
    /\ NothingRenders
    /\ UNCHANGED <<inserted, invocations>>

\* The insert of a createAccount is answered with the new, active row, by
\* a backend that accepts it; an
\* event is on its way to every channel, and the instance goes on with
\* await fetchAccounts(): setLoading(true), and the select is sent.
createAccountInserts(c) ==
    /\ BagIn(c, inFlight)
    /\ c.fn = "createAccount" /\ c.at = "insert"
    /\ inserted < MaxAccounts
    /\ inserted' = inserted + 1
    /\ accountsTable' = Append(accountsTable,
                               AccountRow(inserted + 1, c.name, c.starting_balance, TRUE))
    /\ InstancesChange(Loading(instances, c.hook))
    /\ UnderWay((inFlight (-) SetToBag({c})) (+) SetToBag({FetchCall(c.hook)}), 1)
    /\ UNCHANGED <<failures, invocations>>

\* The insert is answered with an error, one of the requests that fail or
\* the answer of a backend that accepts no further row: createAccount
\* toasts and returns null.
createAccountInsertFails(c) ==
    /\ BagIn(c, inFlight)
    /\ c.fn = "createAccount" /\ c.at = "insert"
    /\ IF inserted < MaxAccounts THEN RequestFails ELSE UNCHANGED failures
    /\ UnderWay(inFlight (-) SetToBag({c}), 0)
    /\ UNCHANGED <<accountsTable, inserted, invocations>>
    /\ NothingRenders

\* The one write of the call c is answered.  Done, the table is newTable,
\* an event for each of the rows touched is on its way to every channel, and
\* the instance goes on with await fetchAccounts().  On an error the
\* operation toasts and ends.
WriteAnswered(c, newTable, rows, ok) ==
    /\ BagIn(c, inFlight)
    /\ UNCHANGED <<inserted, invocations>>
    /\ IF ok
       THEN /\ UNCHANGED failures
            /\ accountsTable' = newTable
            /\ InstancesChange(Loading(instances, c.hook))
            /\ UnderWay((inFlight (-) SetToBag({c})) (+) SetToBag({FetchCall(c.hook)}), rows)
       ELSE /\ RequestFails
            /\ accountsTable' = accountsTable
            /\ UnderWay(inFlight (-) SetToBag({c}), 0)
            /\ NothingRenders

\* updateAccount(id, { is_active: isActive }) is invoked on h for an
\* account h lists: the update is sent.
updateAccount(h) ==
    \E i \in DOMAIN instances[h].accounts, isActive \in BOOLEAN :
        InvokedUpTo(Call("updateAccount", h, "update", "", 0,
                         instances[h].accounts[i].id, isActive))

\* The update of an updateAccount is answered.
updateAccountAnswered(c, ok) ==
    /\ c.fn = "updateAccount"
    /\ WriteAnswered(c, updateRow(accountsTable, c.id, c.is_active),
                     RowsWithId(accountsTable, c.id), ok)

\* deleteAccount(id) is invoked on h for an account h lists: the delete is sent.
deleteAccount(h) ==
    \E i \in DOMAIN instances[h].accounts :
        InvokedUpTo(Call("deleteAccount", h, "delete", "", 0,
                         instances[h].accounts[i].id, FALSE))

\* The delete of a deleteAccount is answered.
deleteAccountAnswered(c, ok) ==
    /\ c.fn = "deleteAccount"
    /\ WriteAnswered(c, deleteRow(accountsTable, c.id), RowsWithId(accountsTable, c.id), ok)

\* setActiveAccount(accountId) is invoked on h for an account h lists: the
\* rpc is sent.
setActiveAccount(h) ==
    \E i \in DOMAIN instances[h].accounts :
        InvokedUpTo(Call("setActiveAccount", h, "rpc", "", 0,
                         instances[h].accounts[i].id, FALSE))

\* The rpc of a setActiveAccount is answered.  The function
\* set_account_active is the backend's: it writes the rows it changes, or
\* every row of the user, and for an account the backend no longer holds it
\* reports an error.
setActiveAccountAnswered(c, ok) ==
    /\ c.fn = "setActiveAccount"
    /\ IF RowsWithId(accountsTable, c.id) = 1
       THEN \E rows \in {Len(accountsTable),
                          Cardinality({i \in DOMAIN accountsTable :
                              accountsTable[i] # set_account_active(accountsTable, c.id)[i]})} :
               WriteAnswered(c, set_account_active(accountsTable, c.id), rows, ok)
       ELSE /\ ~ok
            /\ BagIn(c, inFlight)
            /\ UnderWay(inFlight (-) SetToBag({c}), 0)
            /\ UNCHANGED <<accountsTable, inserted, failures, invocations>>
            /\ NothingRenders

NextAccounts ==
    \/ \E h \in Hooks : fetchAccountsSucceeds(h)
    \/ \E h \in Hooks : fetchAccountsFails(h)
    \/ \E h \in Hooks : postgres_changes(h)
    \/ \E h \in Hooks : refetchAccounts(h)
    \/ \E h \in Hooks : createAccount(h)
    \/ \E c \in BagToSet(inFlight), ok \in BOOLEAN : createAccountDeactivates(c, ok)
    \/ \E c \in BagToSet(inFlight) : createAccountInserts(c)
    \/ \E c \in BagToSet(inFlight) : createAccountInsertFails(c)
    \/ \E h \in Hooks : updateAccount(h)
    \/ \E c \in BagToSet(inFlight), ok \in BOOLEAN : updateAccountAnswered(c, ok)
    \/ \E h \in Hooks : deleteAccount(h)
    \/ \E c \in BagToSet(inFlight), ok \in BOOLEAN : deleteAccountAnswered(c, ok)
    \/ \E h \in Hooks : setActiveAccount(h)
    \/ \E c \in BagToSet(inFlight), ok \in BOOLEAN : setActiveAccountAnswered(c, ok)

SpecAccounts == InitAccounts /\ [][NextAccounts]_vars

----------------------------------------------------------------------------
(* Properties of the P&L calculator (specification SpecCalculator) *)

WinSpellings == { <<"W","i","n">>, <<"w","i","n">>, <<"W","I","N">> }

LossSpellings == { <<"L","o","s","s">>, <<"L","O","S","S">> }

\* The review page is rendered (not loading, a trade fetched): const pnl is evaluated.
Rendered == route = Review /\ ~loading /\ trade # <<>>

\* A review page showing a trade under an active account.
Reviewed == Rendered /\ reviewActiveAccount # <<>>

\* The table shows a row under an active account.
RowShown == sortedTrades # <<>> /\ tableActiveAccount # <<>>

\* C1: with an account present and pnl_dollar present (0 and values whose
\* sign contradicts result included), calculatePnL and calculateTradePnL
\* return exactly pnl_dollar, whatever risk_percentage, rr and result are.
C1_PnlDollarVerbatim ==
    /\ (Reviewed /\ trade[1].pnl_dollar # null) => pnl = trade[1].pnl_dollar
    /\ tableActiveAccount # <<>> =>
          \A i \in DOMAIN sortedTrades :
              sortedTrades[i].pnl_dollar # null => tradePnL[i] = sortedTrades[i].pnl_dollar

\* C1 witness: pnl_dollar = -37.5 on a 'Win' with rr 1.7 is shown as -37.5.
C1_Witness ==
    /\ Reviewed
    /\ trade[1].pnl_dollar = -375000
    /\ trade[1].result = <<"W","i","n">>
    /\ trade[1].rr = 17
    /\ pnl = -375000

\* round(x, 2) of a number x of the program, a double: the whole number
\* of cents nearest to it, the half cent going away from 0.
round2(x) == x.sign * DigitsToFixed(x, 100) * 100

\* round(x, 2) of a money value x that is not on a half cent.
nearestCent(x) == IF x < 0 THEN -(((-x + 50) \div 100) * 100) ELSE ((x + 50) \div 100) * 100

\* C2: pnl_dollar unset and result 'win' in any letter case: calculatePnL is
\* round(starting_balance * p/100 * r, 2), p = risk_percentage or 1.0 when
\* falsy, r = rr or 1 when falsy: the cent nearest to the product the
\* program holds, which off a half cent is the cent nearest to the product.
C2_WinIsRoundedRiskTimesRR ==
    (Reviewed /\ trade[1].pnl_dollar = null /\ trade[1].result \in WinSpellings) =>
        LET p == IF trade[1].risk_percentage \in {null, 0} THEN 10
                 ELSE trade[1].risk_percentage
            r == IF trade[1].rr \in {null, 0} THEN 10 ELSE trade[1].rr
            exact == reviewActiveAccount[1].starting_balance * p * r
        IN  /\ pnl = round2(Multiply(riskAmountDouble(reviewActiveAccount[1].starting_balance, p),
                                     Double(r, 10)))
            /\ exact % 100 # 50 => pnl = nearestCent(exact)

\* C2 witness: 75 * 1 % * 1.7 is the half cent 1.275; its double is below
\* it and it is shown as 1.27.
C2_Witness ==
    /\ Reviewed
    /\ trade[1].pnl_dollar = null
    /\ trade[1].result = <<"W","I","N">>
    /\ reviewActiveAccount[1].starting_balance = 75
    /\ trade[1].risk_percentage = null
    /\ trade[1].rr = 17
    /\ pnl = 12700

\* C3: pnl_dollar unset and result 'loss' in any letter case: calculatePnL is
\* -round(starting_balance * p/100, 2), the cent nearest to the product the
\* program holds, whatever rr is, and so is calculateTradePnL.
C3_LossIsMinusRoundedRisk ==
    /\ (Reviewed /\ trade[1].pnl_dollar = null /\ trade[1].result \in LossSpellings) =>
          LET p == IF trade[1].risk_percentage \in {null, 0} THEN 10
                   ELSE trade[1].risk_percentage
              exact == reviewActiveAccount[1].starting_balance * p * 10
          IN  /\ pnl = -round2(riskAmountDouble(reviewActiveAccount[1].starting_balance, p))
              /\ exact % 100 # 50 => pnl = -nearestCent(exact)
    /\ tableActiveAccount # <<>> =>
          \A i \in DOMAIN sortedTrades :
              (sortedTrades[i].pnl_dollar = null /\ sortedTrades[i].result \in LossSpellings) =>
                  LET p == IF sortedTrades[i].risk_percentage \in {null, 0} THEN 10
                           ELSE sortedTrades[i].risk_percentage
                      exact == tableActiveAccount[1].starting_balance * p * 10
                  IN  /\ tradePnL[i] =
                             -round2(riskAmountDouble(tableActiveAccount[1].starting_balance, p))
                      /\ exact % 100 # 50 => tradePnL[i] = -nearestCent(exact)

\* C3 witness: a loss of 0.5 % of 75 with rr 1.7 is the half cent 0.375;
\* its double is above it and it is shown as -0.38.
C3_Witness ==
    /\ Reviewed
    /\ trade[1].pnl_dollar = null
    /\ trade[1].result = <<"L","O","S","S">>
    /\ reviewActiveAccount[1].starting_balance = 75
    /\ trade[1].risk_percentage = 5
    /\ trade[1].rr = 17
    /\ pnl = -3800

\* C4: pnl_dollar unset and a result that is neither 'win' nor 'loss':
\* calculatePnL is 0, whatever risk_percentage and rr are.
C4_OtherResultIsZero ==
    (Reviewed /\ trade[1].pnl_dollar = null
        /\ trade[1].result \notin WinSpellings \cup LossSpellings) => pnl = 0

\* C4 witness: 'BE', a result the calculator does not know, with risk and
\* rr set is shown as 0.
C4_Witness ==
    /\ Reviewed
    /\ trade[1].pnl_dollar = null
    /\ trade[1].result = <<"B","E">>
    /\ trade[1].risk_percentage = 5
    /\ trade[1].rr = 17
    /\ pnl = 0

\* C5: with no active account calculatePnL and calculateTradePnL return 0
\* for every trade, a trade with a nonzero pnl_dollar included.
C5_NoAccountIsZero ==
    /\ (Rendered /\ reviewActiveAccount = <<>>) => pnl = 0
    /\ tableActiveAccount = <<>> => \A i \in DOMAIN sortedTrades : tradePnL[i] = 0

\* C5 witness: pnl_dollar = -37.5 shown as 0 while no account is active.
C5_Witness ==
    /\ Rendered
    /\ reviewActiveAccount = <<>>
    /\ trade[1].pnl_dollar = -375000
    /\ pnl = 0

----------------------------------------------------------------------------
(* Properties of the dashboard statistics (specification SpecStats) *)

BreakevenSpellings == { <<"B","r","e","a","k","e","v","e","n">> }

\* The statistics of a non-empty trade list under an active account.
Aggregated == trades # <<>> /\ activeAccount # <<>>

\* The P&L of the i-th input trade.
PnLOf(i) == useTrades_calculatePnL(trades[i], activeAccount)

\* The sum of f over the set S of indices.
RECURSIVE SumOver(_, _)
SumOver(f, S) ==
    IF S = {} THEN 0
    ELSE LET i == CHOOSE j \in S : TRUE IN f[i] + SumOver(f, S \ {i})

WinIndices == {i \in DOMAIN trades : trades[i].result \in WinSpellings}

LossIndices == {i \in DOMAIN trades : trades[i].result \in LossSpellings}

BreakevenIndices == {i \in DOMAIN trades : trades[i].result \in BreakevenSpellings}

\* The example of the specification: balance 10000, [Win rr 2 risk 1, Loss risk 1].
ExampleTrades ==
    /\ activeAccount = <<[starting_balance |-> 10000]>>
    /\ trades = << [pnl_dollar |-> null, risk_percentage |-> 10, rr |-> 20,
                    result |-> <<"W","i","n">>, date |-> DayA(9),
       created_at |-> DayB(10), updated_at |-> DayB(10)],
                   [pnl_dollar |-> null, risk_percentage |-> 10, rr |-> null,
                    result |-> <<"L","o","s","s">>, date |-> DayA(16),
       created_at |-> DayB(10), updated_at |-> DayB(10)] >>

\* C6: for a non-empty trade list and a present account, totalPnL is the
\* signed sum of calculatePnL over all input trades, and the same per-trade
\* values feed the other aggregates (trades of a single day have that sum as
\* their best day); the example gives 200 and -100, totalPnL 100, winRate 50
\* and profitFactor 2.
C6_TotalPnLIsSignedSum ==
    Aggregated =>
        /\ stats.totalPnL = SumOver([i \in DOMAIN trades |-> PnLOf(i)], DOMAIN trades)
        /\ (\A i \in DOMAIN trades : trades[i].date \div 24 = trades[1].date \div 24)
              => stats.bestDayProfit = stats.totalPnL
        /\ ExampleTrades =>
              /\ PnLOf(1) = 2000000
              /\ PnLOf(2) = -1000000
              /\ stats.totalPnL = 1000000
              /\ stats.winRate = <<50, 1>>
              /\ stats.profitFactor = <<2, 1>>

\* C6 witness: the example, aggregated.
C6_Witness == ExampleTrades /\ stats.totalTrades = 2 /\ stats.totalPnL = 1000000

\* C7: with totalWinPnL the sum of |P&L| over wins and totalLossPnL the sum
\* of |P&L| over losses, profitFactor is their quotient when totalLossPnL > 0,
\* Infinity (no finite number, shown as the infinity sign) when totalLossPnL = 0
\* and totalWinPnL > 0, and 0 when both are 0.
C7_ProfitFactorIsDollarRatio ==
    Aggregated =>
        LET W == SumOver([i \in DOMAIN trades |-> Abs(PnLOf(i))], WinIndices)
            L == SumOver([i \in DOMAIN trades |-> Abs(PnLOf(i))], LossIndices)
            pf == stats.profitFactor
        IN  /\ L > 0 => pf[2] > 0 /\ pf = Fraction(W, L)
            /\ (L = 0 /\ W > 0) => pf[2] = 0
            /\ (L = 0 /\ W = 0) => pf = <<0, 1>>
            /\ (profitFactorCardValue(stats, tradesWithPnL(filteredTrades, activeAccount))[1] = "U+221E") <=> (L = 0 /\ W > 0)

\* C7 witness: wins of $200 and $37.50 against a loss of $100: 2.375, shown as 2.38.
C7_Witness ==
    /\ Aggregated
    /\ Len(trades) = 3
    /\ stats.wins = 2
    /\ stats.losses = 1
    /\ stats.profitFactor = <<19, 8>>
    /\ profitFactorCardValue(stats, tradesWithPnL(filteredTrades, activeAccount)) = <<"toFixed(2)", 238>>

\* C8 as claimed, under an active account: every non-empty all-win trade list
\* has profitFactor = Infinity and every non-empty all-breakeven list has
\* profitFactor = 0.
C8_AllWinsIsInfinity ==
    Aggregated =>
        /\ WinIndices = DOMAIN trades => stats.profitFactor = Infinity
        /\ BreakevenIndices = DOMAIN trades => stats.profitFactor = <<0, 1>>

\* C8 amended: a non-empty all-win trade list has profitFactor = Infinity
\* exactly when an account is active and some trade's P&L is not 0, and
\* profitFactor = 0 otherwise; a non-empty all-breakeven list has 0.
C8_AllWinsIsInfinityIfSomeDollars ==
    trades # <<>> =>
        /\ WinIndices = DOMAIN trades =>
              stats.profitFactor =
                  IF activeAccount # <<>> /\ \E i \in DOMAIN trades : PnLOf(i) # 0
                  THEN Infinity ELSE <<0, 1>>
        /\ BreakevenIndices = DOMAIN trades => stats.profitFactor = <<0, 1>>

\* C8 witness: two wins, one of them with a P&L of 0, give Infinity.
C8_Witness ==
    /\ Aggregated
    /\ Len(trades) = 2
    /\ WinIndices = DOMAIN trades
    /\ PnLOf(1) = 0
    /\ PnLOf(2) # 0
    /\ stats.profitFactor = Infinity

\* C9 as claimed: every input trade is counted in exactly one of wins,
\* losses and breakevens, so the three counts add up to totalTrades.
C9_CountsPartitionTrades ==
    stats.wins + stats.losses + stats.breakevens = stats.totalTrades

\* C10: winRate = wins / totalTrades * 100 when totalTrades > 0 and 0 when
\* there are no trades; so 0 <= winRate <= 100, and the LOSSES card's
\* percentage 100 - winRate is never negative.
C10_WinRateIsPercentageOfWins ==
    LET wr == stats.winRate
    IN  /\ wr[2] > 0
        /\ stats.totalTrades > 0 => wr[1] * stats.totalTrades = stats.wins * 100 * wr[2]
        /\ Aggregated => stats.wins = Cardinality(WinIndices)
                           /\ stats.totalTrades = Len(trades)
        /\ stats.totalTrades = 0 => wr = <<0, 1>>
        /\ 0 <= wr[1] /\ wr[1] <= 100 * wr[2]
        /\ lossesCardChange(stats) >= 0

\* C10 witness: one win in three trades: 33.3 %, the LOSSES card shows 66.7 %.
C10_Witness ==
    /\ Aggregated
    /\ stats.totalTrades = 3
    /\ stats.wins = 1
    /\ stats.winRate = <<100, 3>>
    /\ lossesCardChange(stats) = 667

\* The rr of the i-th input trade in tenths, an absent rr counted as 1.0.
RROrOne(i) == IF trades[i].rr = null THEN 10 ELSE trades[i].rr

\* C11 as claimed: avgWinRR is the mean of rr over the winning trades, a win
\* with absent rr contributing 1.0, and it is 0 only when no trade is a win.
C11_AvgWinRRDefaultsToOne ==
    Aggregated =>
        /\ WinIndices # {} =>
              stats.avgWinRR = Fraction(SumOver([i \in DOMAIN trades |-> RROrOne(i)], WinIndices),
                                        10 * Cardinality(WinIndices))
        /\ stats.avgWinRR = <<0, 1>> => WinIndices = {}

\* The length of the run of trades of the index set S at the start of the list.
LeadingRun(S) ==
    CHOOSE n \in 0..Len(trades) :
        /\ \A i \in 1..n : i \in S
        /\ n = Len(trades) \/ (n + 1) \notin S

\* C12 as claimed: after the streak scan currentWinStreak is the length of
\* the first contiguous run of wins from the start of the input order (0 if
\* the first trade is not a win), and currentLossStreak likewise for losses.
C12_StreakIsFirstRun ==
    Aggregated =>
        /\ stats.currentWinStreak = LeadingRun(WinIndices)
        /\ stats.currentLossStreak = LeadingRun(LossIndices)

\* The calendar days (counted from 1970-01-01) on which the input trades are dated.
TradeDays == {trades[i].date \div 24 : i \in DOMAIN trades}

\* The sum of the P&L of the trades dated on a calendar day.
DaySum(day) ==
    SumOver([i \in DOMAIN trades |-> PnLOf(i)], {i \in DOMAIN trades : trades[i].date \div 24 = day})

\* C13: bestDayProfit is the greatest, over the calendar days of the trades'
\* date field (whatever the time of day, and whenever the trade was logged),
\* of the day's sum of P&L; it is 0 without trades, and when every day's sum
\* is negative it is the least negative one, not 0.
C13_BestDayIsGreatestDaySum ==
    /\ trades = <<>> => stats.bestDayProfit = 0
    /\ Aggregated =>
          /\ \E day \in TradeDays : stats.bestDayProfit = DaySum(day)
          /\ \A day \in TradeDays : DaySum(day) <= stats.bestDayProfit
          /\ (\A day \in TradeDays : DaySum(day) < 0) => stats.bestDayProfit < 0

\* C13 witness: two losing days, one of them of two trades at different
\* hours, all logged on the same day; the best day is the smaller loss.
C13_Witness ==
    /\ Aggregated
    /\ Len(trades) = 3
    /\ Cardinality(TradeDays) = 2
    /\ Cardinality({trades[i].date : i \in DOMAIN trades}) = 3
    /\ \A day \in TradeDays : DaySum(day) < 0
    /\ \E d1, d2 \in TradeDays : DaySum(d1) < DaySum(d2)
    /\ stats.bestDayProfit < 0

\* The numeric fields of the statistics are all 0.
AllZero(s) ==
    /\ s.totalTrades = 0 /\ s.wins = 0 /\ s.losses = 0 /\ s.breakevens = 0
    /\ s.winRate = <<0, 1>> /\ s.avgWinRR = <<0, 1>> /\ s.avgLossRR = <<0, 1>>
    /\ s.profitFactor = <<0, 1>>
    /\ s.currentWinStreak = 0 /\ s.currentLossStreak = 0
    /\ s.totalPnL = 0 /\ s.bestDayProfit = 0

\* C14: when the trade list handed to the statistics is empty or no account
\* is active, every numeric field of the result is 0, even if trades exist.
C14_NothingToAggregateIsAllZero ==
    (trades = <<>> \/ activeAccount = <<>>) => AllZero(stats)

\* C14 witness: three trades, a win among them, and no active account.
C14_Witness ==
    /\ Len(trades) = 3
    /\ WinIndices # {}
    /\ activeAccount = <<>>
    /\ AllZero(stats)

----------------------------------------------------------------------------
(* Properties of the trade review page's risk metrics (specification Spec) *)

\* C15 as claimed: no ratio computed from trades is NaN, and a ratio whose
\* divisor is 0 is 0 or Infinity: on the review page the efficiency (divisor:
\* the expected P&L) and the return percentage (divisor: the starting
\* balance), on the dashboard winRate, profitFactor and avgWinRR.
C15_NoRatioIsNaN ==
    /\ stats.winRate # NaN /\ stats.profitFactor # NaN /\ stats.avgWinRR # NaN
    /\ riskMetrics # <<>> =>
          LET m == riskMetrics[1]
              expectedPnL == IF trade[1].result = <<"W","i","n">>
                             THEN m.potentialReward ELSE -m.riskAmount
          IN  /\ m.efficiency # NaN
              /\ m.actualReturnPercentage # NaN
              /\ expectedPnL = 0 => m.efficiency \in {<<0, 1>>, Infinity}

----------------------------------------------------------------------------
(* Properties of the equity curve and the time filter (specification SpecFilter) *)

\* The one-to-one orders of the indices 1..n.
Orders(n) == {p \in [1..n -> 1..n] : \A i, j \in 1..n : p[i] = p[j] => i = j}

\* The values of the points of the equity curve.
EquityValues == [i \in DOMAIN equityData |-> equityData[i].value]

\* C16: for n >= 1 trades and a present account the equity curve has n + 1
\* points: the first has value 0 and the earliest trade's date, and the
\* (i+1)-th has the date of the i-th trade in ascending date order and the
\* sum of the P&L of the first i trades in that order (P&Ls of 100 then -50
\* give 0, 100, 50), whatever the active time filter selects.
C16_EquityCurveIsRunningSum ==
    (trades # <<>> /\ activeAccount # <<>>) =>
        LET n == Len(trades)
        IN  /\ Len(equityData) = n + 1
            /\ \E p \in Orders(n) :
                  /\ \A i \in 1..(n - 1) : trades[p[i]].date <= trades[p[i + 1]].date
                  /\ equityData[1] = [date |-> trades[p[1]].date, value |-> 0]
                  /\ \A i \in 1..n :
                        equityData[i + 1] =
                            [date |-> trades[p[i]].date,
                             value |-> SumOver([j \in 1..n |-> PnLOf(p[j])], 1..i)]
            /\ (n = 2 /\ trades[1].date < trades[2].date
                      /\ PnLOf(1) = 1000000 /\ PnLOf(2) = -500000)
                  => EquityValues = <<0, 1000000, 500000>>

\* C16 witness: P&Ls of -50 (dated later, first in the list) and 100 give
\* the curve 0, 100, 50 while the filter 'today' selects no trade.
C16_Witness ==
    /\ activeAccount # <<>>
    /\ Len(trades) = 2
    /\ trades[1].date > trades[2].date
    /\ activeFilter = "today"
    /\ filteredTrades = <<>>
    /\ EquityValues = <<0, 1000000, 500000>>
    /\ equityData[2].date = trades[2].date

\* A step in which the array trades keeps its length keeps its order and contents.
TradesKept == Len(trades') = Len(trades) => trades' = trades

\* A step evaluates the equity curve from the same trades and account as before.
SameInputs == trades' = trades /\ activeAccount' = activeAccount

\* C17 as claimed: for every trade set (the empty one included) and every
\* account (none included) two evaluations of the equity curve from the same
\* inputs give the same sequence of points, and the array trades keeps its
\* order and contents.
C17_EquityCurveIsIdempotent ==
    [][TradesKept /\ (SameInputs => equityData' = equityData)]_vars

\* C17 amended: two evaluations from the same inputs give the same values,
\* and the same points when there are trades and an account; without trades
\* or without an account the curve is one point of value 0 dated at the
\* reading of the clock of its evaluation (a press of a filter button may
\* leave the curve as it was).  The array trades keeps its order and
\* contents.
C17_EquityCurveIsIdempotentButForTheClock ==
    [][/\ TradesKept
       /\ SameInputs =>
             /\ [i \in DOMAIN equityData' |-> equityData'[i].value] = EquityValues
             /\ (trades # <<>> /\ activeAccount # <<>>) => equityData' = equityData
             /\ (trades = <<>> \/ activeAccount = <<>>) =>
                   \/ equityData' = <<[date |-> now', value |-> 0]>>
                   \/ activeFilter' # activeFilter /\ equityData' = equityData]_vars

\* C17 witness: trades that are not in date order were refetched at a later
\* reading of the clock; the curve is sorted, the array is not.
C17_Witness ==
    /\ activeAccount # <<>>
    /\ Len(trades) = 2
    /\ trades[1].date > trades[2].date
    /\ now = FridayAfternoon
    /\ equityData[2].date = trades[2].date
    /\ equityData[3].date = trades[1].date

\* The trades, in their order in trades, whose date is one of the hours in S.
TradesDatedIn(S) ==
    LET dated(t) == t.date \in S IN SelectSeq(trades, dated)

\* The trades, in their order in trades, whose date is at or after the hour from.
TradesDatedFrom(from) ==
    LET dated(t) == t.date >= from IN SelectSeq(trades, dated)

\* The hours of the days first..last, days counted from 1970-01-01.
HoursOfDays(first, last) == (first * 24)..(last * 24 + 23)

\* The day of now.
Today == now \div 24

\* The Sunday that starts the week of now; 2024-03-15 was a Friday.
WeekStart == Today - ((Today - DaysFromCivil(2024, 3, 15) + 5 + 7000) % 7)

\* C18: 'this-week' selects exactly the trades dated in the week, Sunday
\* 00:00 to Saturday 23:59, that contains now, and 'last-week' exactly those
\* of the week before it; a trade dated after the end of the week is not
\* selected.  At now = Friday 2024-03-15 a trade of 2024-03-11 is in
\* 'this-week' and a trade of 2024-03-09 is not.
C18_WeekFiltersAreCalendarWeeks ==
    /\ activeFilter = "this-week" =>
          filteredTrades = TradesDatedIn(HoursOfDays(WeekStart, WeekStart + 6))
    /\ activeFilter = "last-week" =>
          filteredTrades = TradesDatedIn(HoursOfDays(WeekStart - 7, WeekStart - 1))
    /\ (activeFilter = "this-week" /\ Today = DaysFromCivil(2024, 3, 15)) =>
          \A i \in DOMAIN trades :
              /\ trades[i].date \div 24 = DaysFromCivil(2024, 3, 11)
                    => \E j \in DOMAIN filteredTrades : filteredTrades[j] = trades[i]
              /\ trades[i].date \div 24 = DaysFromCivil(2024, 3, 9)
                    => \A j \in DOMAIN filteredTrades : filteredTrades[j] # trades[i]

\* C18 witness: on Friday 2024-03-15, of the trades of Saturday 2024-03-09
\* and Monday 2024-03-11 'this-week' selects the second only.
C18_Witness ==
    /\ now = FridayAfternoon
    /\ activeFilter = "this-week"
    /\ Len(trades) = 2
    /\ trades[1].date \div 24 = DaysFromCivil(2024, 3, 9)
    /\ trades[2].date \div 24 = DaysFromCivil(2024, 3, 11)
    /\ filteredTrades = <<trades[2]>>

\* now minus three calendar months, at the readings of the clock.
ThreeMonthsBeforeNow ==
    CASE now = FridayAfternoon -> NewDate(2023, 11, 15, 14)
      [] now = NewDate(2024, 0, 1, 8) -> NewDate(2023, 9, 1, 8)
      [] OTHER -> subMonths(now, 3)

\* C19 as claimed: '3-months' selects exactly the trades whose date is at or
\* after now minus three calendar months, every future-dated trade among them.
C19_ThreeMonthsIsSinceNowMinusThreeMonths ==
    activeFilter = "3-months" => filteredTrades = TradesDatedFrom(ThreeMonthsBeforeNow)

\* C19 amended: '3-months' selects exactly the trades whose date is at or
\* after 00:00 of the calendar day three calendar months before today,
\* whatever the time of now, every future-dated trade among them.
C19_ThreeMonthsIsSinceStartOfThatDay ==
    activeFilter = "3-months" =>
        filteredTrades = TradesDatedFrom((ThreeMonthsBeforeNow \div 24) * 24)

\* C19 witness: at 14:00 on 2024-03-15 the trade of 2023-12-15 08:00 is
\* selected and the trade of 2023-12-14 23:00 is not.
C19_Witness ==
    /\ now = FridayAfternoon
    /\ activeFilter = "3-months"
    /\ Len(trades) = 2
    /\ trades[1].date = NewDate(2023, 11, 14, 23)
    /\ trades[2].date = NewDate(2023, 11, 15, 8)
    /\ filteredTrades = <<trades[2]>>

\* The months from year 0 to the month of the day.
MonthsTo(day) == CivilFromDays(day).year * 12 + CivilFromDays(day).month

\* The trades, in their order in trades, of the month that is `months` after year 0.
TradesOfMonth(months) ==
    LET dated(t) == MonthsTo(t.date \div 24) = months IN SelectSeq(trades, dated)

\* The trades, in their order in trades, of a year.
TradesOfYear(year) ==
    LET dated(t) == CivilFromDays(t.date \div 24).year = year IN SelectSeq(trades, dated)

\* C20: 'today' selects exactly the trades dated on the calendar day of now
\* and 'yesterday' those of the day before, whatever their time;
\* 'this-month' / 'last-month' select exactly the trades of the month (and
\* year) of now / of the month before, 'this-year' / 'last-year' those of
\* the year of now / of the year before; none selects a later trade.
C20_DayMonthYearFiltersAreCalendarUnits ==
    /\ activeFilter = "today" => filteredTrades = TradesDatedIn(HoursOfDays(Today, Today))
    /\ activeFilter = "yesterday" =>
          filteredTrades = TradesDatedIn(HoursOfDays(Today - 1, Today - 1))
    /\ activeFilter = "this-month" => filteredTrades = TradesOfMonth(MonthsTo(Today))
    /\ activeFilter = "last-month" => filteredTrades = TradesOfMonth(MonthsTo(Today) - 1)
    /\ activeFilter = "this-year" => filteredTrades = TradesOfYear(CivilFromDays(Today).year)
    /\ activeFilter = "last-year" => filteredTrades = TradesOfYear(CivilFromDays(Today).year - 1)
    /\ activeFilter \in {"today", "yesterday", "this-month", "last-month", "this-year", "last-year"} =>
          \A j \in DOMAIN filteredTrades :
              CivilFromDays(filteredTrades[j].date \div 24).year <= CivilFromDays(Today).year

\* C20 witness: at 08:00 on Monday 2024-01-01 'last-month' selects the trade
\* of 2023-12-31 23:00 and not the one of 2024-03-17.
C20_Witness ==
    /\ now = NewDate(2024, 0, 1, 8)
    /\ activeFilter = "last-month"
    /\ Len(trades) = 2
    /\ trades[1].date = NewDate(2024, 2, 17, 0)
    /\ trades[2].date = NewDate(2023, 11, 31, 23)
    /\ filteredTrades = <<trades[2]>>

\* The strictly increasing maps from the indices of filteredTrades to those of trades.
Embeddings ==
    {m \in [DOMAIN filteredTrades -> DOMAIN trades] :
        \A i, j \in DOMAIN filteredTrades : i < j => m[i] < m[j]}

\* The i-th trade is among the filtered trades.
Selected(i) == \E j \in DOMAIN filteredTrades : filteredTrades[j] = trades[i]

\* C21: under every keyword filteredTrades is a subsequence of trades (no
\* trade added, duplicated or reordered); under 'all' and under a keyword
\* outside the list it is the whole of trades; and whether a trade is
\* selected depends on its date alone: a trade that differs from it in
\* created_at and updated_at only (logged seven days earlier, edited a day
\* later) would be selected alike.
C21_FilterIsSubsequenceByDate ==
    /\ Len(filteredTrades) <= Len(trades)
    /\ \E m \in Embeddings : \A j \in DOMAIN filteredTrades : filteredTrades[j] = trades[m[j]]
    /\ activeFilter \notin DatedKeywords => filteredTrades = trades
    /\ \A i \in DOMAIN trades :
          Selected(i) <=>
              passesFilter([trades[i] EXCEPT !.created_at = @ - 168, !.updated_at = @ + 24],
                           activeFilter, now)

\* C21 witness: of two trades logged today, 'today' selects the one dated
\* today and not the one dated next year.
C21_Witness ==
    /\ now = FridayAfternoon
    /\ activeFilter = "today"
    /\ Len(trades) = 2
    /\ trades[1].date = NewDate(2024, 2, 15, 20)
    /\ trades[2].date = NewDate(2025, 0, 1, 0)
    /\ \A i \in DOMAIN trades : isSameDay(trades[i].created_at, now)
    /\ filteredTrades = <<trades[1]>>

\* The trades whose date new Date() can parse.
ValidlyDated(ts) == SelectSeq(ts, LAMBDA t : isValid(t.date))

\* C22 (specification SpecInvalidDate): a trade with an invalid date does
\* not make the statistics or the equity curve fail; statistics and curve
\* are what they would be if the trades with an invalid date were absent.
C22_InvalidDateIsLeftOut ==
    LET valid == ValidlyDated(trades)
    IN  /\ stats # RangeError
        /\ stats = filteredStats(filterTrades(valid, activeFilter, now), activeAccount)
        /\ \E build \in equityDataMemo(valid, activeAccount, now) : equityData = build.points

\* C23 (specification Spec): result is compared without regard to case
\* everywhere: a reviewed trade whose result is spelled 'win' or 'WIN' has
\* the P&L and the risk metrics (expected P&L, hence efficiency) of the
\* same trade spelled 'Win'.
C23_ResultCaseNeverMatters ==
    (Reviewed /\ trade[1].result \in WinSpellings) =>
        LET spelledWin == [trade[1] EXCEPT !.result = <<"W","i","n">>]
        IN  /\ pnl = calculatePnL(spelledWin, reviewActiveAccount)
            /\ riskMetrics = calculateRiskMetrics(spelledWin, reviewActiveAccount)

----------------------------------------------------------------------------
(* Properties of useAccounts (specification SpecAccounts) *)

\* The rows of the backend that are flagged active.
ActiveRows == {i \in DOMAIN accountsTable : accountsTable[i].is_active}

\* C24 (specification SpecAccounts): in every state that createAccount,
\* setActiveAccount, updateAccount and deleteAccount reach, in any
\* interleaving and with requests failing, a user who has an account has
\* exactly one account with is_active = true.
C24_ExactlyOneActiveAccount ==
    Len(accountsTable) > 0 => Cardinality(ActiveRows) = 1

\* The accounts the dashboard's instance of the hook holds, and those of
\* them that are flagged active.
DashboardAccounts == instances["TradingDashboard"].accounts

FlaggedAccounts == {i \in DOMAIN DashboardAccounts : DashboardAccounts[i].is_active}

\* C25 as stated (specification SpecAccounts): the account getActiveAccount
\* returns to the dashboard is one flagged is_active, and it returns null
\* whenever no account is flagged.
C25_ActiveAccountIsFlaggedOrNull ==
    /\ FlaggedAccounts = {} => activeAccount = <<>>
    /\ activeAccount # <<>> =>
          \E i \in FlaggedAccounts :
              activeAccount[1].starting_balance = DashboardAccounts[i].starting_balance

\* C27 (specification SpecAccounts): the default account 'Main Account' is
\* inserted only for a user who has no account in the backend, whatever the
\* interleaving of the fetches and effects of the mounted instances.
C27_DefaultAccountOnlyForNewUser ==
    [][(/\ Len(accountsTable') = Len(accountsTable) + 1
        /\ accountsTable'[Len(accountsTable')].name = "Main Account")
          => accountsTable = <<>>]_vars

----------------------------------------------------------------------------
(* The trade table against the calculators (specification SpecCalculator) *)

\* C26: the P&L the trade table shows in a trade's row is the value the
\* dashboard's calculator returns for the same trade and account, rounding
\* to cents included, and so is the P&L the review page shows for its trade
\* and account; the table and the page meet every trade under every account.
C26_TableRowMatchesCalculators ==
    /\ \A i \in DOMAIN sortedTrades :
          tradePnL[i] = useTrades_calculatePnL(sortedTrades[i], tableActiveAccount)
    /\ Rendered => pnl = useTrades_calculatePnL(trade[1], reviewActiveAccount)

\* C26 witness: a win of 1.7 R at 0.5 % of $75: 0.6375 is shown as 0.64 in
\* the row, while the dashboard above it has no account yet.
C26_Witness ==
    /\ RowShown
    /\ activeAccount = <<>>
    /\ tableActiveAccount[1].starting_balance = 75
    /\ sortedTrades[1].pnl_dollar = null
    /\ sortedTrades[1].risk_percentage = 5
    /\ sortedTrades[1].rr = 17
    /\ sortedTrades[1].result = <<"W","I","N">>
    /\ tradePnL = <<6400>>

----------------------------------------------------------------------------
(* The P&L cards of the dashboard (specification SpecStats) *)

\* C28: the cards 'PNL $' and 'PNL %' are coloured by the sign of the total:
\* the sign StatsCard reads from the value string is negative when
\* totalPnL < 0 and positive when totalPnL >= 0.
C28_CardSignIsSignOfTotal ==
    stats # RangeError =>
        \A card \in {StatsCard(pnlDollarCardValue(stats, tradesWithPnL(filteredTrades, activeAccount))),
                     StatsCard(pnlPercentCardValue(stats, tradesWithPnL(filteredTrades, activeAccount), activeAccount))} :
            /\ card.isNegative <=> stats.totalPnL < 0
            /\ card.isPositive <=> stats.totalPnL >= 0

----------------------------------------------------------------------------
(* The streak scan (specification SpecStats) *)

\* The length of the run of trades of the index set S at the end of the list.
TrailingRun(S) ==
    CHOOSE n \in 0..Len(trades) :
        /\ \A i \in (Len(trades) - n + 1)..Len(trades) : i \in S
        /\ n = Len(trades) \/ (Len(trades) - n) \notin S

\* C29: after every iteration of the streak scan at most one of
\* currentWinStreak and currentLossStreak is nonzero; after the scan
\* currentWinStreak is the length of the run of wins that ends at the last
\* trade (0 if the last trade is no win) and currentLossStreak likewise for
\* losses; so currentWinStreak <= wins and currentLossStreak <= losses.
C29_StreakIsTrailingRun ==
    Aggregated =>
        /\ \A n \in 0..Len(trades) :
              LET step == streaks(tradesWithPnL(trades, activeAccount), n)
              IN  step[1] = 0 \/ step[2] = 0
        /\ stats.currentWinStreak = TrailingRun(WinIndices)
        /\ stats.currentLossStreak = TrailingRun(LossIndices)
        /\ stats.currentWinStreak <= stats.wins
        /\ stats.currentLossStreak <= stats.losses

\* C29 witness: a win, a loss and a win: the streak is the single win at
\* the end, not the two wins of the list.
C29_Witness ==
    /\ Aggregated
    /\ Len(trades) = 3
    /\ WinIndices = {1, 3}
    /\ LossIndices = {2}
    /\ stats.currentWinStreak = 1
    /\ stats.currentLossStreak = 0
    /\ stats.wins = 2

----------------------------------------------------------------------------
(* The order of the trade table (specification SpecTable) *)

\* The sort key of a row: updated_at, created_at, date.
RowKey(t) == <<t.updated_at, t.created_at, t.date>>

\* Key x is lexicographically greater than or equal to key y.
KeyGeq(x, y) ==
    \/ x[1] > y[1]
    \/ x[1] = y[1] /\ x[2] > y[2]
    \/ x[1] = y[1] /\ x[2] = y[2] /\ x[3] >= y[3]

\* C30: the trade table shows a permutation of the trades it is given,
\* ordered by updated_at descending, then created_at descending, then date
\* descending: the key of each row is lexicographically >= the key of the
\* next; the array it is given keeps its order.
C30_TableIsSortedPermutation ==
    /\ sortedTrades \in Arrangements(filteredTrades)
    /\ \A i \in 1..(Len(sortedTrades) - 1) :
          KeyGeq(RowKey(sortedTrades[i]), RowKey(sortedTrades[i + 1]))
    /\ filteredTrades = filterTrades(trades, activeFilter, now)

\* C30 witness: three trades given oldest edit first are shown latest edit
\* first, the tie in updated_at broken by created_at.
C30_Witness ==
    /\ Len(trades) = 3
    /\ trades[1].updated_at = DayB(10) /\ trades[1].created_at = DayA(10)
    /\ trades[2].updated_at = DayB(10) /\ trades[2].created_at = DayB(10)
    /\ trades[3].updated_at = DayB(12)
    /\ filteredTrades = trades
    /\ sortedTrades = <<trades[3], trades[2], trades[1]>>

====
